---- MODULE Spec2Model ----
(***************************************************************************)
(* Verification model of the Dentweb / WebCeph automation repository.      *)
(*                                                                         *)
(* The module holds one state machine per component; every component has   *)
(* its own variables and its own specification, and leaves the other       *)
(* components' variables untouched:                                        *)
(*   SpecQueue   - AirtableSync and its offline queue file                 *)
(*                 (src/src/automation/airtable_sync.py)                   *)
(*   SpecFlow    - AutomationFlowWidget, the 3-stage pipeline of the UI    *)
(*                 (src/src/ui/automation_flow.py)                         *)
(*   SpecLocator - the selector loops of WebCephAutomation                 *)
(*                 (src/src/automation/web_ceph_automation.py)             *)
(*   SpecWindow  - DentwebOCRExtractor.find_dentweb_window                 *)
(*                 (src/src/automation/dentweb_automation.py)              *)
(*   SpecWorker  - AutomationWorker, the monitor's worker thread           *)
(*                 (src/src/ui/automation_monitor.py)                      *)
(*   SpecThreads - AirtableSync called from two threads at once            *)
(*                 (src/src/automation/airtable_sync.py)                   *)
(*   SpecSettings- the stages of the UI and process_patient /              *)
(*                 process_new_patient with settings missing               *)
(*   SpecMonitor - AutomationMonitorWidget and the workers it starts       *)
(*                 (src/src/ui/automation_monitor.py)                      *)
(*   SpecWorkerFair - SpecWorker with the worker thread scheduled fairly   *)
(*   SpecActivation - the window restore sequences of DentwebOCRExtractor  *)
(*                 (src/src/automation/dentweb_automation.py)              *)
(*   SpecDetect  - detect_and_select_new_patient and the row matching      *)
(*                 (src/src/automation/web_ceph_automation.py)             *)
(*   SpecWait    - wait_for_analysis_completion, fairly scheduled          *)
(*                 (src/src/automation/web_ceph_automation.py)             *)
(***************************************************************************)
EXTENDS Integers, Sequences, FiniteSets, TLC

(***************************************************************************)
(* Bounds of the model (not program constants).                            *)
(***************************************************************************)
\* number of items the sync calls may enqueue in one behaviour
MaxEnqueue == 3

(***************************************************************************)
(* Program constants.                                                      *)
(***************************************************************************)
\* airtable_sync.py:445  "if item['retry_count'] < 3"
MaxRetries == 3

\* Entries of the steps list of AutomationWorker.run, and the position of
\* wait_analysis in it.
NumSteps == 8
AnalysisWaitStep == 6

\* Iterations of the wait_analysis loop (range(30) in the code).
WaitIterations == 3

\* Most windows that match a Dentweb pattern in one enumeration.
MaxWindows == 2

\* Rows of the patient list the page may show.
MaxRows == 6

\* Longest strategy list given to a locator loop.
MaxStrategies == 4

\* Items the calls made from several threads may enqueue in one behaviour.
MaxThreadEnqueue == 2

\* Worker signals that may wait undelivered in the UI thread's event queue.
MaxSignals == 1

VARIABLES
    \* ---- AirtableSync / offline queue ----
    queue_file,      \* content of offline_queue.json: a sequence of queue items
    file_exists,     \* offline_queue_file.exists()
    nextUid,         \* identity given to the next enqueued item (model identity)
    hist,            \* per item: outcomes of the replay attempts made for it
    fate,            \* per item: "absent" | "queued" | "processed" | "failed"
    lastCall,        \* the AirtableSync call that returned last
    lastResult,      \* the dict that call returned (queued_msg: the message
                     \* ends "(오프라인 큐에 저장됨)"; enq: the item the call
                     \* appended to the store, 0 when it appended none)
    sumProcessed,    \* sum of 'processed' over all process_offline_queue calls
    sumFailed,       \* sum of 'failed' over all process_offline_queue calls
    \* ---- AutomationFlowWidget ----
    automation_steps,  \* automation_steps[i]['status'], i = 1..3 in list order
    button_text,       \* step_buttons[i]['button'].text()
    button_enabled,    \* step_buttons[i]['button'].isEnabled()
    progress_bar,      \* progress_bar.value()
    settings_ok,       \* config holds WebCeph ID, password and Upstage API key
    ocr_dialog,        \* the modal "OCR 실행 준비" question box is open
    ocr_worker,        \* DentwebAutomationWorker thread: "none" | "running"
    ocr_signals,       \* worker signals emitted and not yet delivered to the widget
    wc_timer,          \* pending QTimer.singleShot of the WebCeph stage
    pdf_timer,         \* pending QTimer.singleShot of the PDF stage
    wc_outcome,        \* when run_webceph_process is the handler that ran
                       \* last: how its browser session went (what its log
                       \* says); "none" otherwise
    lastAction,        \* the handler that ran last
    lastReq,           \* the last execute_step request and what became of it
    writes,            \* the status assignments the last handler made, in order
    scenario,          \* progress of the history "stage 3 refused while stage 2
                       \* failed, stage 2 re-run to completion, stage 3 accepted"
    \* ---- WebCephAutomation locator loops ----
    loc_call,          \* the locator function that returned last
    loc_outs,          \* what each strategy of its list met on the page, in order
    loc_result,        \* what the function returned or raised, and what it tried
    \* ---- DentwebOCRExtractor.find_dentweb_window ----
    win_pc,            \* "enum": EnumWindows is running; "done": returned
    dentweb_windows,   \* the window_info records appended so far, in order
    selected_window,   \* position of the returned record, 0 for None
    \* ---- AutomationWorker (automation_monitor.py) ----
    w_pc,              \* the line of run() / wait_analysis() the thread is at
    w_step,            \* index of the current entry of steps, 1..NumSteps
    w_iter,            \* iterations of the wait_analysis loop completed
    is_paused,         \* AutomationWorker.is_paused
    should_stop,       \* AutomationWorker.should_stop
    w_started,         \* stages for which step_started was emitted
    w_completed,       \* stages for which step_completed was emitted
    w_finished,        \* automation_finished emitted: "none" | "True" | "False"
    stop_at,           \* where the thread was when stop() first set the flag
    started_after_stop,  \* stages whose step_started came after the flag was set
    ticks_after_stop,    \* msleep(1000) calls of the wait loop made after it
    spins_after_stop,    \* msleep(100) calls of a pause loop made after it
    w_log,             \* the signals the worker emitted, in order
    pause_spins,       \* the pause loops ("L63", "W143") in which the thread
                       \* has slept while is_paused and not should_stop
    pause_at,          \* where the thread was when pause() set the flag that
                       \* is set now, and what it had started by then
    \* ---- AirtableSync called from several threads ----
    enq_local,         \* per enqueuing thread: where _add_to_offline_queue is,
                       \* its queue_item and the offline_queue list it loaded
    rep_local,         \* where process_offline_queue is, and the list it loaded
    overlapped,        \* some call has read the file while another call was
                       \* between its read and its write
    \* ---- WebCephAutomation.process_patient / process_new_patient ----
    entry,             \* how the application drives WebCeph in this behaviour:
                       \* "widget" (AutomationFlowWidget) or "library" (the
                       \* process_* functions of the module's usage note)
    pp_result,         \* the process_* call that returned last: the calls it
                       \* made, in order, and the dict it returned
    \* ---- AutomationMonitorWidget (automation_monitor.py) ----
    m_is_running,      \* AutomationMonitorWidget.is_running
    automation_worker, \* the worker self.automation_worker refers to, 0: None
    m_started,         \* AutomationWorker objects created so far
    m_pc,              \* UI thread: "idle" in the event loop, "wait" inside
                       \* automation_worker.wait(3000) of stop_automation
    focus,             \* the worker whose thread the w_* variables describe
    threads,           \* for the other workers: their thread, as it was left
    delivered,         \* per worker: signals of its log the UI thread has run
                       \* the slots for
    m_last,            \* the signal delivered last, and the widget's worker
                       \* and is_running when its slot was entered
    \* ---- window activation sequences (dentweb_automation.py) ----
    act_fn,            \* the function that issued the calls of act_log
    act_log,           \* the win32gui calls made on the window, in order;
                       \* for GetWindowRect with the rectangle it returned
    \* ---- detection of the new patient (web_ceph_automation.py) ----
    det_fn,            \* the function that was called last
    det_in,            \* the keys of patient_data that hold a value
    det_rows,          \* the rows of the patient list: for each row, the
                       \* patient fields whose value occurs in its text
    det_calls,         \* the detection methods called, in order
    det_out,           \* what the call returned, the row it clicked and the
                       \* method that clicked it
    \* ---- wait_for_analysis_completion (web_ceph_automation.py) ----
    wa_pc,             \* "idle", "poll" (top of the loop body), "sleep"
                       \* (time.sleep(check_interval)), "returned", "raised"
    wa_minutes,        \* max_wait_minutes
    wa_elapsed,        \* the loop variable elapsed
    wa_polls,          \* loop bodies entered
    wa_errors,         \* loop bodies left through the inner except
    wa_seen            \* polls that found a completion indicator

qvars == <<queue_file, file_exists, nextUid, hist, fate, lastCall, lastResult,
           sumProcessed, sumFailed>>

fvars == <<automation_steps, button_text, button_enabled, progress_bar,
           settings_ok, ocr_dialog, ocr_worker, ocr_signals, wc_timer,
           pdf_timer, lastAction, lastReq, writes, scenario, wc_outcome>>

lvars == <<loc_call, loc_outs, loc_result>>

wvars == <<win_pc, dentweb_windows, selected_window>>

kvars == <<w_pc, w_step, w_iter, is_paused, should_stop, w_started,
           w_completed, w_finished, stop_at, started_after_stop,
           ticks_after_stop, spins_after_stop, w_log, pause_spins,
           pause_at>>

cvars == <<enq_local, rep_local, overlapped>>

pvars == <<entry, pp_result>>

mvars == <<m_is_running, automation_worker, m_started, m_pc, focus, threads,
           delivered, m_last>>

avars == <<act_fn, act_log>>

dvars == <<det_fn, det_in, det_rows, det_calls, det_out>>

uvars == <<wa_pc, wa_minutes, wa_elapsed, wa_polls, wa_errors, wa_seen>>

vars == <<qvars, fvars, lvars, wvars, kvars, cvars, pvars, mvars, avars,
          dvars, uvars>>

(***************************************************************************)
(* AirtableSync: create_patient_record, update_analysis_result,            *)
(* _add_to_offline_queue, process_offline_queue.                           *)
(***************************************************************************)
Uids == 1..MaxEnqueue

ActionTypes == {"create_patient", "update_result"}

\* What one remote call (session.post / session.patch) can do.
HttpOutcomes == {"ok200", "ok200_badbody", "http_error", "exception"}

\* What the remote call of one replayed item can do (the body of a 200
\* response is not read on replay).
ReplayOutcomes == {"ok200", "http_error", "exception"}

\* queue_item with 'retry_count': 3 in place of 0
NewQueueItemExhausted(uid, action_type) ==
    [uid |-> uid, action_type |-> action_type, retry_count |-> MaxRetries,
     last_error |-> "none"]

\* queue_item built by _add_to_offline_queue (retry_count starts at 0).
NewQueueItem(uid, action_type) ==
    [uid |-> uid, action_type |-> action_type, retry_count |-> 0,
     last_error |-> "none"]

\* _add_to_offline_queue: read the whole file (or start from an empty
\* list when it does not exist), append, rewrite the whole file.
AddToOfflineQueue(action_type) ==
    /\ queue_file' = Append(IF file_exists THEN queue_file ELSE <<>>,
                            NewQueueItem(nextUid, action_type))
    /\ file_exists' = TRUE
    /\ fate' = [fate EXCEPT ![nextUid] = "queued"]
    /\ nextUid' = nextUid + 1

NoEnqueue == UNCHANGED <<queue_file, file_exists, fate, nextUid>>

\* The body shared by create_patient_record and update_analysis_result.
\* mapOk: whether _map_patient_data / _map_analysis_result builds the
\* payload for the given input (it raises on a missing key, on a
\* birth_date that is no date object, on an unserialisable value ...).
\* The mapping is a function of the call's input only, so it raises in the
\* except block exactly when it raised in the try block.
SyncCall(call, action_type, mapOk, http) ==
    /\ nextUid <= MaxEnqueue
    /\ lastCall' = call
    /\ IF ~mapOk
       THEN \* try: mapping raises -> except: mapping raises again -> pass
            /\ NoEnqueue
            /\ lastResult' = [success |-> FALSE, queued_msg |-> TRUE, enq |-> 0]
       ELSE CASE http = "ok200" ->
                    /\ NoEnqueue
                    /\ lastResult' = [success |-> TRUE, queued_msg |-> FALSE,
                                      enq |-> 0]
              [] http = "http_error" ->
                    /\ AddToOfflineQueue(action_type)
                    /\ lastResult' = [success |-> FALSE, queued_msg |-> TRUE,
                                      enq |-> nextUid]
              [] OTHER ->
                    \* the request raised, or (create only) the 200 body
                    \* had no JSON 'id': except block, mapping succeeds
                    /\ AddToOfflineQueue(action_type)
                    /\ lastResult' = [success |-> FALSE, queued_msg |-> TRUE,
                                      enq |-> nextUid]
    /\ UNCHANGED <<hist, sumProcessed, sumFailed>>

create_patient_record ==
    \E mapOk \in BOOLEAN, http \in HttpOutcomes :
        SyncCall("create_patient_record", "create_patient", mapOk, http)

\* update_analysis_result does not read the body of a 200 response.
update_analysis_result ==
    \E mapOk \in BOOLEAN, http \in HttpOutcomes \ {"ok200_badbody"} :
        SyncCall("update_analysis_result", "update_result", mapOk, http)

\* One iteration of "for item in offline_queue", on the accumulator
\* acc = [processed, failed, remaining_queue, outcome].
ReplayItemKeepsTooLong(item, out, acc) ==
    IF item.action_type \in ActionTypes
    THEN IF out = "ok200"
         THEN [acc EXCEPT !.processed = @ + 1,
                          !.outcome = @ @@ (item.uid :> "processed")]
         ELSE LET it2 == [item EXCEPT !.retry_count = @ + 1,
                                      !.last_error = out]
              IN  IF it2.retry_count <= MaxRetries
                  THEN [acc EXCEPT !.remaining_queue = Append(@, it2),
                                   !.outcome = @ @@ (item.uid :> "kept")]
                  ELSE [acc EXCEPT !.failed = @ + 1,
                                   !.outcome = @ @@ (item.uid :> "failed")]
    ELSE [acc EXCEPT !.outcome = @ @@ (item.uid :> "skipped")]

ReplayItemKeepsSuccess(item, out, acc) ==
    IF item.action_type \in ActionTypes
    THEN IF out = "ok200"
         THEN [acc EXCEPT !.processed = @ + 1,
                          !.remaining_queue = Append(@, item),
                          !.outcome = @ @@ (item.uid :> "processed")]
         ELSE LET it2 == [item EXCEPT !.retry_count = @ + 1,
                                      !.last_error = out]
              IN  IF it2.retry_count < MaxRetries
                  THEN [acc EXCEPT !.remaining_queue = Append(@, it2),
                                   !.outcome = @ @@ (item.uid :> "kept")]
                  ELSE [acc EXCEPT !.failed = @ + 1,
                                   !.outcome = @ @@ (item.uid :> "failed")]
    ELSE [acc EXCEPT !.outcome = @ @@ (item.uid :> "skipped")]

\* lines 445-450 with the else branch left out: an item that used up its
\* retries is dropped without being counted
ReplayItemDropsUncounted(item, out, acc) ==
    IF item.action_type \in ActionTypes
    THEN IF out = "ok200"
         THEN [acc EXCEPT !.processed = @ + 1,
                          !.outcome = @ @@ (item.uid :> "processed")]
         ELSE LET it2 == [item EXCEPT !.retry_count = @ + 1,
                                      !.last_error = out]
              IN  IF it2.retry_count < MaxRetries
                  THEN [acc EXCEPT !.remaining_queue = Append(@, it2),
                                   !.outcome = @ @@ (item.uid :> "kept")]
                  ELSE [acc EXCEPT !.outcome = @ @@ (item.uid :> "failed")]
    ELSE [acc EXCEPT !.outcome = @ @@ (item.uid :> "skipped")]

ReplayItem(item, out, acc) ==
    IF item.action_type \in ActionTypes
    THEN IF out = "ok200"
         THEN [acc EXCEPT !.processed = @ + 1,
                          !.outcome = @ @@ (item.uid :> "processed")]
         ELSE LET it2 == [item EXCEPT !.retry_count = @ + 1,
                                      !.last_error = out]
              IN  IF it2.retry_count < MaxRetries
                  THEN [acc EXCEPT !.remaining_queue = Append(@, it2),
                                   !.outcome = @ @@ (item.uid :> "kept")]
                  ELSE [acc EXCEPT !.failed = @ + 1,
                                   !.outcome = @ @@ (item.uid :> "failed")]
    ELSE \* neither branch of the if/elif: nothing raised, nothing counted,
         \* not appended to remaining_queue
         [acc EXCEPT !.outcome = @ @@ (item.uid :> "skipped")]

RECURSIVE ReplayLoop(_, _, _, _)
ReplayLoop(snapshot, outs, i, acc) ==
    IF i > Len(snapshot)
    THEN acc
    ELSE ReplayLoop(snapshot, outs, i + 1, ReplayItem(snapshot[i], outs[i], acc))

ReplayStart ==
    [processed |-> 0, failed |-> 0, remaining_queue |-> <<>>,
     outcome |-> <<>>]

\* process_offline_queue, the calls serialized: one whole call.
process_offline_queue ==
    /\ lastCall' = "process_offline_queue"
    /\ IF ~file_exists \/ queue_file = <<>>
       THEN \* early return: nothing read further, nothing written
            /\ lastResult' = [success |-> TRUE, processed |-> 0, failed |-> 0,
                              remaining |-> 0, outcome |-> <<>>,
                              snapshot |-> 0]
            /\ UNCHANGED <<queue_file, file_exists, nextUid, hist, fate,
                           sumProcessed, sumFailed>>
       ELSE \E outs \in [1..Len(queue_file) -> ReplayOutcomes] :
              LET r == ReplayLoop(queue_file, outs, 1, ReplayStart) IN
              /\ queue_file' = r.remaining_queue
              /\ lastResult' = [success |-> TRUE, processed |-> r.processed,
                                failed |-> r.failed,
                                remaining |-> Len(r.remaining_queue),
                                outcome |-> r.outcome,
                                snapshot |-> Len(queue_file)]
              /\ hist' = [u \in Uids |->
                            IF \E i \in 1..Len(queue_file) : queue_file[i].uid = u
                            THEN LET i == CHOOSE j \in 1..Len(queue_file) :
                                              queue_file[j].uid = u
                                 IN  Append(hist[u],
                                            IF outs[i] = "ok200" THEN "ok" ELSE "fail")
                            ELSE hist[u]]
              /\ fate' = [u \in Uids |->
                            IF u \in DOMAIN r.outcome /\ r.outcome[u] # "kept"
                            THEN r.outcome[u] ELSE fate[u]]
              /\ sumProcessed' = sumProcessed + r.processed
              /\ sumFailed' = sumFailed + r.failed
              /\ UNCHANGED <<file_exists, nextUid>>

InitQueueVars ==
    /\ queue_file = <<>>
    /\ file_exists = FALSE
    /\ nextUid = 1
    /\ hist = [u \in Uids |-> <<>>]
    /\ fate = [u \in Uids |-> "absent"]
    /\ lastCall = "none"
    /\ lastResult = [success |-> TRUE]
    /\ sumProcessed = 0
    /\ sumFailed = 0

(***************************************************************************)
(* The same two functions called from several threads: each call is a read *)
(* of the whole file and, later, a write of the whole file; the steps of   *)
(* different calls interleave.  A write is taken as atomic.                *)
(***************************************************************************)
EnqThreads == {1, 2}

Idle == [pc |-> "idle", item |-> NewQueueItem(0, "none"),
         offline_queue |-> <<>>]

\* Another call is between its read and its write.
OtherCallInProgress(t) ==
    \/ \E u \in EnqThreads \ {t} : enq_local[u].pc # "idle"
    \/ t # 0 /\ rep_local.pc # "idle"

\* _add_to_offline_queue, lines 346-358: build queue_item, load the file
add_to_offline_queue_read(t) ==
    /\ enq_local[t].pc = "idle"
    /\ nextUid <= MaxThreadEnqueue
    /\ \E action_type \in ActionTypes :
         enq_local' = [enq_local EXCEPT ![t] =
                         [pc |-> "loaded",
                          item |-> NewQueueItem(nextUid, action_type),
                          offline_queue |-> IF file_exists THEN queue_file
                                            ELSE <<>>]]
    /\ nextUid' = nextUid + 1
    /\ overlapped' = (overlapped \/ OtherCallInProgress(t))
    /\ UNCHANGED <<queue_file, file_exists, hist, fate, lastCall, lastResult,
                   sumProcessed, sumFailed, rep_local>>

\* lines 361-365 with the append left out: only the new item is written
add_to_offline_queue_write_alone(t) ==
    /\ enq_local[t].pc = "loaded"
    /\ queue_file' = <<enq_local[t].item>>
    /\ file_exists' = TRUE
    /\ fate' = [fate EXCEPT ![enq_local[t].item.uid] = "queued"]
    /\ enq_local' = [enq_local EXCEPT ![t] = Idle]
    /\ UNCHANGED <<nextUid, hist, lastCall, lastResult, sumProcessed,
                   sumFailed, rep_local, overlapped>>

\* lines 361-365: append to the loaded list, rewrite the file
add_to_offline_queue_write(t) ==
    /\ enq_local[t].pc = "loaded"
    /\ queue_file' = Append(enq_local[t].offline_queue, enq_local[t].item)
    /\ file_exists' = TRUE
    /\ fate' = [fate EXCEPT ![enq_local[t].item.uid] = "queued"]
    /\ enq_local' = [enq_local EXCEPT ![t] = Idle]
    /\ UNCHANGED <<nextUid, hist, lastCall, lastResult, sumProcessed,
                   sumFailed, rep_local, overlapped>>

\* process_offline_queue, lines 375-392: the early returns, or the load
process_offline_queue_read ==
    /\ rep_local.pc = "idle"
    /\ IF ~file_exists \/ queue_file = <<>>
       THEN UNCHANGED rep_local
       ELSE rep_local' = [pc |-> "loaded", offline_queue |-> queue_file]
    /\ overlapped' = (overlapped \/ OtherCallInProgress(0))
    /\ UNCHANGED <<qvars, enq_local>>

\* lines 396-454: the loop over the loaded list, then the rewrite
process_offline_queue_write ==
    /\ rep_local.pc = "loaded"
    /\ \E outs \in [1..Len(rep_local.offline_queue) -> ReplayOutcomes] :
         LET r == ReplayLoop(rep_local.offline_queue, outs, 1, ReplayStart) IN
         /\ queue_file' = r.remaining_queue
         /\ fate' = [u \in Uids |->
                       IF u \in DOMAIN r.outcome /\ r.outcome[u] # "kept"
                       THEN r.outcome[u] ELSE fate[u]]
         /\ sumProcessed' = sumProcessed + r.processed
         /\ sumFailed' = sumFailed + r.failed
    /\ rep_local' = [pc |-> "idle", offline_queue |-> <<>>]
    /\ UNCHANGED <<file_exists, nextUid, hist, lastCall, lastResult,
                   enq_local, overlapped>>

InitThreadVars ==
    /\ enq_local = [t \in EnqThreads |-> Idle]
    /\ rep_local = [pc |-> "idle", offline_queue |-> <<>>]
    /\ overlapped = FALSE

(***************************************************************************)
(* AutomationFlowWidget: execute_step, reset_step_status,                  *)
(* update_step_status and the asynchronous completions of the stages.      *)
(***************************************************************************)
\* automation_steps, in list order (index 1..3 for Python's 0..2).
StepIds == <<"ocr_extraction", "webceph_analysis", "pdf_download">>
Steps == 1..Len(StepIds)

RerunTexts == {"재실행", "재시도"}

\* The widget's per-stage data while a handler runs; writes collects the
\* status assignments of the handler in the order it makes them.
UI == [status |-> automation_steps, text |-> button_text,
       enabled |-> button_enabled, writes |-> <<>>]

Commit(ui) ==
    /\ automation_steps' = ui.status
    /\ button_text' = ui.text
    /\ button_enabled' = ui.enabled
    /\ writes' = ui.writes

\* update_step_status(step_id, status, status_text)
update_step_status(ui, s, status) ==
    [ui EXCEPT
        !.status[s] = status,
        !.text[s] = CASE status = "completed" -> "재실행"
                      [] status = "failed" -> "재시도"
                      [] status = "pending" -> "실행"
                      [] OTHER -> @,
        !.enabled[s] = (status # "running"),
        !.writes = Append(@, [step |-> s, from |-> ui.status[s], to |-> status])]

\* reset_step_status(step_id)
reset_step_status_all_later(ui, s) ==
    [ui EXCEPT
        !.status = [t \in Steps |-> IF t >= s THEN "pending" ELSE ui.status[t]],
        !.text[s] = "실행",
        !.enabled[s] = TRUE,
        !.writes = Append(@, [step |-> s, from |-> ui.status[s], to |-> "pending"])]

reset_step_status_first(ui, s) ==
    [ui EXCEPT
        !.status[1] = "pending",
        !.text[s] = "실행",
        !.enabled[s] = TRUE,
        !.writes = Append(@, [step |-> 1, from |-> ui.status[1], to |-> "pending"])]

reset_step_status(ui, s) ==
    [ui EXCEPT
        !.status[s] = "pending",
        !.text[s] = "실행",
        !.enabled[s] = TRUE,
        !.writes = Append(@, [step |-> s, from |-> ui.status[s], to |-> "pending"])]

\* execute_step, lines 501-510: the completion check of the earlier stages,
\* skipped for a re-run.
OrderOkSkipsPredecessor(status, s, rerun) ==
    rerun \/ \A i \in 1..(s - 2) : status[i] = "completed"

OrderOk(status, s, rerun) ==
    rerun \/ \A i \in 1..(s - 1) : status[i] = "completed"

\* execute_ocr_extraction + show_ocr_capture_dialog up to the question box.
\* A worker still running is terminated (lines 549-551) and the worker
\* object is replaced; signals the old worker has emitted and the widget has
\* not yet handled are either still delivered or dropped with the old object.
execute_ocr_extraction(ui0) ==
    LET ui1 == update_step_status(ui0, 1, "running") IN
    \E exc \in BOOLEAN, keep \in BOOLEAN :
        /\ ocr_worker' = "none"
        /\ ocr_signals' = IF keep THEN ocr_signals ELSE <<>>
        /\ IF exc
           THEN \* except: update_step_status('ocr_extraction', 'failed', ...)
                /\ Commit(update_step_status(ui1, 1, "failed"))
                /\ ocr_dialog' = FALSE
           ELSE /\ Commit(ui1)
                /\ ocr_dialog' = TRUE
        /\ UNCHANGED <<wc_timer, pdf_timer>>

\* execute_webceph_analysis + start_real_webceph_automation
execute_webceph_analysis(ui0) ==
    LET ui1 == update_step_status(ui0, 2, "running") IN
    \E exc \in BOOLEAN :
        /\ IF exc
           THEN /\ Commit(update_step_status(ui1, 2, "failed"))
                /\ UNCHANGED wc_timer
           ELSE /\ Commit(ui1)
                /\ wc_timer' = "run_webceph_process"
        /\ UNCHANGED <<ocr_dialog, ocr_worker, ocr_signals, pdf_timer>>

\* execute_pdf_download
execute_pdf_download(ui0) ==
    /\ Commit(update_step_status(ui0, 3, "running"))
    /\ pdf_timer' = "simulate_pdf_download"
    /\ UNCHANGED <<ocr_dialog, ocr_worker, ocr_signals, wc_timer>>

\* check_settings with the test of missing_settings left out
check_settings_always_true == TRUE

\* check_settings(): False (behind a warning box) when the WebCeph ID, the
\* WebCeph password or the Upstage API key is missing
check_settings == settings_ok

Request(s, rerun, verdict) ==
    [step |-> s, rerun |-> rerun, verdict |-> verdict,
     before |-> automation_steps, settings |-> settings_ok]

ScenarioAfterRequest(s, rerun, verdict) ==
    CASE scenario = 0 /\ s = 3 /\ ~rerun /\ verdict = "refused_order"
                      /\ automation_steps[2] = "failed" -> 1
      [] scenario = 1 /\ s = 2 /\ rerun /\ verdict = "accepted" -> 2
      [] scenario = 3 /\ s = 3 /\ ~rerun /\ verdict = "accepted" -> 4
      [] OTHER -> scenario

\* execute_step(step_id): a click on the stage's button; for
\* 'ocr_extraction' also the main window's menu and quick action, which
\* call execute_step without looking at the button.
execute_step(s) ==
    /\ ~ocr_dialog
    /\ button_enabled[s] \/ s = 1
    /\ lastAction' = "execute_step"
    /\ LET rerun == button_text[s] \in RerunTexts
           ui1 == IF rerun THEN reset_step_status(UI, s) ELSE UI
           verdict == IF ~check_settings THEN "refused_settings"
                      ELSE IF ~OrderOk(ui1.status, s, rerun)
                           THEN "refused_order" ELSE "accepted"
       IN  /\ lastReq' = Request(s, rerun, verdict)
           /\ scenario' = ScenarioAfterRequest(s, rerun, verdict)
           /\ IF verdict # "accepted"
              THEN \* check_settings() fails, or "단계 순서 오류": return
                   /\ Commit(ui1)
                   /\ UNCHANGED <<ocr_dialog, ocr_worker, ocr_signals,
                                  wc_timer, pdf_timer>>
              ELSE CASE s = 1 -> execute_ocr_extraction(ui1)
                     [] s = 2 -> execute_webceph_analysis(ui1)
                     [] OTHER -> execute_pdf_download(ui1)
    /\ wc_outcome' = "none"
    /\ UNCHANGED <<progress_bar, settings_ok>>

\* show_ocr_capture_dialog, the operator's answer: Ok runs execute_capture,
\* which starts the worker or, when start() raises, marks the stage failed;
\* Cancel puts the stage back to 'pending'.
ocr_dialog_reply ==
    /\ ocr_dialog
    /\ ocr_dialog' = FALSE
    /\ \E reply \in {"Ok", "Ok_start_raises", "Cancel"} :
        CASE reply = "Ok" ->
                /\ lastAction' = "ocr_dialog_ok"
                /\ ocr_worker' = "running"
                /\ Commit(UI)
          [] reply = "Ok_start_raises" ->
                /\ lastAction' = "ocr_dialog_ok"
                /\ Commit(update_step_status(UI, 1, "failed"))
                /\ UNCHANGED ocr_worker
          [] OTHER ->
                /\ lastAction' = "ocr_dialog_cancel"
                /\ Commit(update_step_status(UI, 1, "pending"))
                /\ UNCHANGED ocr_worker
    /\ UNCHANGED <<progress_bar, settings_ok, ocr_signals, wc_timer,
                   pdf_timer, lastReq, scenario>>
    /\ wc_outcome' = "none"

\* DentwebAutomationWorker.run ends by emitting patient_info_extracted or
\* error_occurred; the signal crosses to the UI thread as a queued call.
ocr_worker_run ==
    /\ ocr_worker = "running"
    /\ Len(ocr_signals) < MaxSignals
    /\ ocr_worker' = "none"
    /\ \E sig \in {"patient_info_extracted", "error_occurred"} :
        ocr_signals' = Append(ocr_signals, sig)
    /\ lastAction' = "ocr_worker_run"
    /\ Commit(UI)
    /\ UNCHANGED <<progress_bar, settings_ok, ocr_dialog, wc_timer,
                   pdf_timer, lastReq, scenario>>
    /\ wc_outcome' = "none"

\* The UI thread's event loop (also the one of the modal question box)
\* delivers the oldest queued signal.
on_patient_info_extracted ==
    /\ ocr_signals # <<>>
    /\ Head(ocr_signals) = "patient_info_extracted"
    /\ ocr_signals' = Tail(ocr_signals)
    /\ lastAction' = "on_patient_info_extracted"
    /\ Commit(update_step_status(UI, 1, "completed"))
    /\ progress_bar' = 33
    /\ UNCHANGED <<settings_ok, ocr_dialog, ocr_worker, wc_timer, pdf_timer,
                   lastReq, scenario>>
    /\ wc_outcome' = "none"

on_automation_error ==
    /\ ocr_signals # <<>>
    /\ Head(ocr_signals) = "error_occurred"
    /\ ocr_signals' = Tail(ocr_signals)
    /\ lastAction' = "on_automation_error"
    /\ Commit(update_step_status(UI, 1, "failed"))
    /\ UNCHANGED <<progress_bar, settings_ok, ocr_dialog, ocr_worker,
                   wc_timer, pdf_timer, lastReq, scenario>>
    /\ wc_outcome' = "none"

\* QTimer.singleShot(1000, run_webceph_process): the whole browser session
\* runs in the UI thread; it ends by scheduling complete_webceph_analysis
\* or, on any exception, by marking the stage failed.
\* The ways the session can go.  The calls before the detection raise when
\* they fail (initialize_browser, the credentials check, login,
\* click_new_patient_button, fill_patient_form); the calls after it return
\* False when their target is not found.
RaisingOutcomes ==
    {"credentials_missing", "login_raised", "new_patient_button_not_found"}

ReturningFalseOutcomes ==
    {"patient_not_detected", "record_button_not_found",
     "confirmation_not_found"}

WebcephOutcomes == RaisingOutcomes \cup ReturningFalseOutcomes \cup {"ok"}

\* lines 791-794 left out of the handler: a raising call is treated like a
\* call that returned False
SessionRaisedIgnored(outcome) == FALSE

\* except Exception (lines 791-794) is entered
SessionRaised(outcome) == outcome \in RaisingOutcomes

run_webceph_process ==
    /\ wc_timer = "run_webceph_process"
    /\ lastAction' = "run_webceph_process"
    /\ \E outcome \in WebcephOutcomes :
        /\ outcome = "credentials_missing" => ~settings_ok
        /\ wc_outcome' = outcome
        /\ IF SessionRaised(outcome)
           THEN /\ Commit(update_step_status(UI, 2, "failed"))
                /\ wc_timer' = "none"
                /\ scenario' = IF scenario = 2 THEN 1 ELSE scenario
           ELSE \* a warning is logged for a call that returned False; the
                \* handler goes on to line 789
                /\ Commit(UI)
                /\ wc_timer' = "complete_webceph_analysis"
                /\ UNCHANGED scenario
    /\ UNCHANGED <<progress_bar, settings_ok, ocr_dialog, ocr_worker,
                   ocr_signals, pdf_timer, lastReq>>

complete_webceph_analysis ==
    /\ wc_timer = "complete_webceph_analysis"
    /\ lastAction' = "complete_webceph_analysis"
    /\ Commit(update_step_status(UI, 2, "completed"))
    /\ progress_bar' = 66
    /\ wc_timer' = "none"
    /\ scenario' = IF scenario = 2 THEN 3 ELSE scenario
    /\ UNCHANGED <<settings_ok, ocr_dialog, ocr_worker, ocr_signals,
                   pdf_timer, lastReq>>
    /\ wc_outcome' = "none"

simulate_pdf_download ==
    /\ pdf_timer = "simulate_pdf_download"
    /\ lastAction' = "simulate_pdf_download"
    /\ Commit(UI)
    /\ pdf_timer' = "complete_pdf_download"
    /\ UNCHANGED <<progress_bar, settings_ok, ocr_dialog, ocr_worker,
                   ocr_signals, wc_timer, lastReq, scenario>>
    /\ wc_outcome' = "none"

complete_pdf_download ==
    /\ pdf_timer = "complete_pdf_download"
    /\ lastAction' = "complete_pdf_download"
    /\ Commit(update_step_status(UI, 3, "completed"))
    /\ progress_bar' = 100
    /\ pdf_timer' = "none"
    /\ UNCHANGED <<settings_ok, ocr_dialog, ocr_worker, ocr_signals,
                   wc_timer, lastReq, scenario>>
    /\ wc_outcome' = "none"

\* The operator saves or clears the settings in the settings tab
\* (not while the modal question box is open).
settings_changed ==
    /\ ~ocr_dialog
    /\ settings_ok' = ~settings_ok
    /\ lastAction' = "settings_changed"
    /\ Commit(UI)
    /\ UNCHANGED <<progress_bar, ocr_dialog, ocr_worker, ocr_signals,
                   wc_timer, pdf_timer, lastReq, scenario>>
    /\ wc_outcome' = "none"

InitFlowVars ==
    /\ automation_steps = [s \in Steps |-> "pending"]
    /\ button_text = [s \in Steps |-> "실행"]
    /\ button_enabled = [s \in Steps |-> TRUE]
    /\ progress_bar = 0
    /\ settings_ok \in BOOLEAN
    /\ ocr_dialog = FALSE
    /\ ocr_worker = "none"
    /\ ocr_signals = <<>>
    /\ wc_timer = "none"
    /\ pdf_timer = "none"
    /\ lastAction = "none"
    /\ lastReq = [step |-> 0, rerun |-> FALSE, verdict |-> "none",
                  before |-> [s \in Steps |-> "pending"], settings |-> FALSE]
    /\ writes = <<>>
    /\ scenario = 0
    /\ wc_outcome = "none"

(***************************************************************************)
(* WebCephAutomation: the locator loops of the sign-in and new-patient     *)
(* steps.  A loop walks its list of (by, selector) pairs in order; what a  *)
(* pair meets on the page is the input of the call:                        *)
(*   "absent"      the lookup raises or its wait times out                 *)
(*   "unusable"    an element is found but is disabled or not displayed    *)
(*   "click_fails" the element is found and usable but click() raises      *)
(*   "ok"          the element is found (and, in a clicking loop, clicked) *)
(***************************************************************************)
FindOutcomes == {"absent", "unusable", "ok"}
ClickOutcomes == {"absent", "unusable", "click_fails", "ok"}

StrategyLists(outcomes) ==
    UNION {[1..n -> outcomes] : n \in 1..MaxStrategies}

\* The (by, selector) pair at position i of a function's pattern list.
Selector(fn, i) == <<fn, i>>

\* The body of the loop returns at this strategy: a find loop returns any
\* element the lookup yields; a clicking loop returns after a click that
\* went through (a wait for a clickable element times out on an unusable
\* one, _click_login_button skips it after is_enabled/is_displayed).
BodyReturns(out, clicks) ==
    IF clicks THEN out = "ok" ELSE out \in {"unusable", "ok"}

\* click() is called on the element.
BodyClicks(out, clicks) == clicks /\ out \in {"click_fails", "ok"}

\* for by, selector in patterns: try: ... return ... except: continue
\* clicks: the loop is a clicking loop; index: the position whose attempt
\* returned (0: the list was exhausted); evaluated: the positions
\* attempted; clicked: those on which click() was called.
LoopStart(clicks) ==
    [clicks |-> clicks, index |-> 0, evaluated |-> <<>>, clicked |-> <<>>]

Attempt(outs, i, acc) ==
    [acc EXCEPT !.evaluated = Append(@, i),
                !.clicked = IF BodyClicks(outs[i], acc.clicks)
                            THEN Append(@, i) ELSE @]

RECURSIVE StrategyLoopLastMatch(_, _, _)
StrategyLoopLastMatch(outs, i, acc) ==
    IF i > Len(outs) THEN acc
    ELSE IF BodyReturns(outs[i], acc.clicks)
         THEN StrategyLoopLastMatch(outs, i + 1,
                                    [Attempt(outs, i, acc) EXCEPT !.index = i])
         ELSE StrategyLoopLastMatch(outs, i + 1, Attempt(outs, i, acc))

RECURSIVE StrategyLoopGivesUp(_, _, _)
StrategyLoopGivesUp(outs, i, acc) ==
    IF i > Len(outs) THEN acc
    ELSE IF BodyReturns(outs[i], acc.clicks)
         THEN [Attempt(outs, i, acc) EXCEPT !.index = i]
         ELSE Attempt(outs, i, acc)

RECURSIVE StrategyLoop(_, _, _)
StrategyLoop(outs, i, acc) ==
    IF i > Len(outs) THEN acc
    ELSE IF BodyReturns(outs[i], acc.clicks)
         THEN [Attempt(outs, i, acc) EXCEPT !.index = i]
         ELSE StrategyLoop(outs, i + 1, Attempt(outs, i, acc))

\* An exception text: its fixed wording and the selectors it quotes.
NoException == [text |-> "", selectors |-> <<>>]

\* What a locator function hands back: value is "element" (the element of
\* position loop.index), "True", "False" or "None"; raised is the text of
\* the exception it raises, NoException when it raises none.
Returned(fn, loop, value) ==
    [fn |-> fn, value |-> value, raised |-> NoException, loop |-> loop]

Raised(fn, loop, message) ==
    [fn |-> fn, value |-> "None", raised |-> message, loop |-> loop]

\* The exceptions raised: "이메일 입력 필드를 찾을 수 없습니다", "비밀번호
\* 입력 필드를 찾을 수 없습니다", "신규 환자 입력 버튼을 찾을 수 없습니다";
\* each is a literal that quotes no selector.
MsgNoEmailField ==
    [text |-> "email input field not found", selectors |-> <<>>]
MsgNoPasswordField ==
    [text |-> "password input field not found", selectors |-> <<>>]
MsgNoNewPatientButton ==
    [text |-> "new patient button not found", selectors |-> <<>>]

\* What Selenium raises when clear() / send_keys() is called on an element
\* that is disabled or not displayed.
MsgNotInteractable ==
    [text |-> "element not interactable", selectors |-> <<>>]

\* _find_email_field / _find_password_field: return field ... return None
FindField(fn, outs) ==
    LET loop == StrategyLoop(outs, 1, LoopStart(FALSE))
    IN  IF loop.index # 0
        THEN Returned(fn, loop, "element")
        ELSE Returned(fn, loop, "None")

find_email_field ==
    /\ loc_call = "none"
    /\ \E outs \in StrategyLists(FindOutcomes) :
        /\ loc_call' = "_find_email_field"
        /\ loc_outs' = outs
        /\ loc_result' = FindField("_find_email_field", outs)

find_password_field ==
    /\ loc_call = "none"
    /\ \E outs \in StrategyLists(FindOutcomes) :
        /\ loc_call' = "_find_password_field"
        /\ loc_outs' = outs
        /\ loc_result' = FindField("_find_password_field", outs)

\* field.clear(); field.send_keys(...) on the element a find loop returned
Typed(found, outs) ==
    IF outs[found.loop.index] = "ok"
    THEN found
    ELSE Raised(found.fn, found.loop, MsgNotInteractable)

\* _input_credentials: both fields in turn; a field that is None raises a
\* fixed message, typing into a field that cannot take input raises, and
\* the password field is not looked for after the e-mail field failed.
input_credentials ==
    /\ loc_call = "none"
    /\ \E eouts \in StrategyLists(FindOutcomes),
       pouts \in StrategyLists(FindOutcomes) :
        LET email == FindField("_find_email_field", eouts)
            passwd == FindField("_find_password_field", pouts)
        IN  /\ loc_call' = "_input_credentials"
            /\ IF email.value = "None"
               THEN /\ loc_outs' = eouts
                    /\ loc_result' = Raised("_find_email_field", email.loop,
                                            MsgNoEmailField)
               ELSE IF Typed(email, eouts).raised # NoException
               THEN /\ loc_outs' = eouts
                    /\ loc_result' = Typed(email, eouts)
               ELSE /\ loc_outs' = pouts
                    /\ loc_result' =
                          IF passwd.value = "None"
                          THEN Raised("_find_password_field", passwd.loop,
                                      MsgNoPasswordField)
                          ELSE Typed(passwd, pouts)

\* _click_login_button: return True after the first click that goes through,
\* return False when the list is exhausted.
click_login_button ==
    /\ loc_call = "none"
    /\ \E outs \in StrategyLists(ClickOutcomes) :
        LET loop == StrategyLoop(outs, 1, LoopStart(TRUE))
        IN  /\ loc_call' = "_click_login_button"
            /\ loc_outs' = outs
            /\ loc_result' = Returned("_click_login_button", loop,
                                       IF loop.index # 0 THEN "True" ELSE "False")

\* _click_create_button: find_element, then is_enabled() and is_displayed()
\* before click(); return True after the first click that goes through,
\* return False when the list is exhausted.
click_create_button ==
    /\ loc_call = "none"
    /\ \E outs \in StrategyLists(ClickOutcomes) :
        LET loop == StrategyLoop(outs, 1, LoopStart(TRUE))
        IN  /\ loc_call' = "_click_create_button"
            /\ loc_outs' = outs
            /\ loc_result' = Returned("_click_create_button", loop,
                                       IF loop.index # 0 THEN "True" ELSE "False")

\* click_new_patient_button: return True after the first click that goes
\* through, raise a fixed message when the list is exhausted.
click_new_patient_button ==
    /\ loc_call = "none"
    /\ \E outs \in StrategyLists(ClickOutcomes) :
        LET loop == StrategyLoop(outs, 1, LoopStart(TRUE))
        IN  /\ loc_call' = "click_new_patient_button"
            /\ loc_outs' = outs
            /\ loc_result' =
                  IF loop.index # 0
                  THEN Returned("click_new_patient_button", loop, "True")
                  ELSE Raised("click_new_patient_button", loop,
                              MsgNoNewPatientButton)

InitLocatorVars ==
    /\ loc_call = "none"
    /\ loc_outs = <<>>
    /\ loc_result = Returned("none", LoopStart(FALSE), "None")

(***************************************************************************)
(* WebCephAutomation.process_patient and process_new_patient: the calls    *)
(* each makes, in order, up to the first one that raises; close_browser    *)
(* in the finally block.                                                   *)
(***************************************************************************)
AnalysisCalls ==
    <<"upload_images", "start_analysis", "wait_for_analysis_completion",
      "download_pdf">>

\* process_patient, lines 1455-1486
ProcessPatientCalls ==
    <<"patient_data_name", "initialize_browser", "get_credentials", "login",
      "register_patient", "create_complete_patient_record">>
        \o AnalysisCalls

RecordCalls(record) ==
    <<"create_patient_record">> \o
    (IF record THEN <<"setup_record_info", "confirm_record_creation",
                      "wait_for_record_ready">>
     ELSE <<>>)

\* process_new_patient, lines 1509-1559
ProcessNewPatientCalls(detected, selected, record) ==
    <<"patient_data_name", "initialize_browser", "get_credentials", "login",
      "click_new_patient_button", "fill_patient_form",
      "detect_and_select_new_patient">>
        \o (IF detected THEN RecordCalls(record)
            ELSE <<"_select_first_patient_in_list">>
                     \o (IF selected THEN RecordCalls(record) ELSE <<>>))
        \o AnalysisCalls

\* The calls that report a failure by their return value or not at all.
NeverRaising ==
    {"get_credentials", "create_complete_patient_record",
     "detect_and_select_new_patient", "_select_first_patient_in_list",
     "create_patient_record", "setup_record_info", "confirm_record_creation",
     "wait_for_record_ready"}

NoResult ==
    [fn |-> "none", credentials |-> FALSE, calls |-> <<>>, success |-> FALSE,
     message |-> "none"]

\* The credentials test (lines 1461-1463) left out: login is called anyway
ProcessRunWithoutTest(fn, calls, credentials, fail_at) ==
    LET failed == fail_at # 0
        made == IF failed THEN SubSeq(calls, 1, fail_at) ELSE calls
    IN  [fn |-> fn, credentials |-> credentials,
         calls |-> Append(made, "close_browser"),
         success |-> ~failed,
         message |-> IF failed THEN calls[fail_at] ELSE "ok"]

\* The body of the try block and the finally block.  fail_at: the position
\* of the first call that raises, 0 when none does.
ProcessRun(fn, calls, credentials, fail_at) ==
    LET stop == IF ~credentials /\ (fail_at = 0 \/ fail_at > 3) THEN 3
                ELSE fail_at
        failed == stop # 0
        made == IF failed THEN SubSeq(calls, 1, stop) ELSE calls
    IN  [fn |-> fn, credentials |-> credentials,
         calls |-> Append(made, "close_browser"),
         success |-> ~failed,
         message |-> IF failed THEN calls[stop] ELSE "ok"]

ProcessCall(fn, calls) ==
    \E credentials \in BOOLEAN, fail_at \in 0..Len(calls) :
        /\ settings_ok => credentials
        /\ fail_at # 0 => calls[fail_at] \notin NeverRaising
        /\ pp_result' = ProcessRun(fn, calls, credentials, fail_at)
        /\ UNCHANGED entry

process_patient ==
    ProcessCall("process_patient", ProcessPatientCalls)

process_new_patient ==
    \E detected \in BOOLEAN, selected \in BOOLEAN, record \in BOOLEAN :
        ProcessCall("process_new_patient",
                    ProcessNewPatientCalls(detected, selected, record))

InitPatientVars ==
    /\ entry = "widget"
    /\ pp_result = NoResult

(***************************************************************************)
(* DentwebOCRExtractor.find_dentweb_window: enumeration of the top-level   *)
(* windows, classification of their titles, selection of one record.       *)
(* A title is the sequence of its parts; the parts that matter are         *)
(*   "arrow-dentweb"   the text "▶ 덴트웹"                                   *)
(*   "dentweb-colons"  the text "덴트웹 ::"                                  *)
(*   "Chart No."       the text "Chart No."                                *)
(*   "name"            the text "이름"                                       *)
(*   "dental"          a text holding one of the general patterns only     *)
(*   "memo"            any other text                                      *)
(***************************************************************************)
Prefixes == {"arrow-dentweb", "dentweb-colons"}

Titles ==
    { <<>>,
      <<"memo">>,
      <<"dental">>,
      <<"memo", "arrow-dentweb", "Chart No.", "name">>,
      <<"arrow-dentweb">>,
      <<"dentweb-colons", "Chart No.">>,
      <<"arrow-dentweb", "Chart No.", "name">>,
      <<"dentweb-colons", "name", "memo", "Chart No.">> }

StartsWith(title, part) == Len(title) >= 1 /\ title[1] = part

Contains(title, part) == \E k \in 1..Len(title) : title[k] = part

\* lines 52-61
IsSuperStrong(title) ==
    \E prefix \in Prefixes :
        /\ StartsWith(title, prefix)
        /\ Contains(title, "Chart No.")
        /\ Contains(title, "name")

\* lines 64-65
IsStrongMatch(title) == \E prefix \in Prefixes : StartsWith(title, prefix)

\* lines 68-73: '덴트웹' is one of the general patterns, so both prefixes
\* hold a general pattern too.
IsGeneralMatch(title) ==
    \E part \in Prefixes \cup {"dental"} : Contains(title, part)

\* GetWindowRect: off is "left or top below -30000" (a minimized window).
Rects ==
    { [off |-> FALSE, width |-> 100, height |-> 100],
      [off |-> FALSE, width |-> 1000, height |-> 900],
      [off |-> TRUE, width |-> 160, height |-> 28],
      [off |-> FALSE, width |-> 0, height |-> 0] }

\* lines 141 and 258-259: the rectangle is still that of a hidden window
StillHidden(rect) == rect.off \/ rect.width <= 0

\* lines 103-155: what the restore sequence of the callback leaves behind:
\* the rectangle read after it (after SW_SHOWMAXIMIZED when the first one
\* is still hidden), or nothing when a call of the sequence raised.
RestoreResults ==
    {[raised |-> TRUE, rect |-> [off |-> FALSE, width |-> 0, height |-> 0]]}
    \cup {[raised |-> FALSE, rect |-> r] : r \in Rects}

\* line 104: the restore sequence is entered only for a window that is
\* minimized, not visible or of no width; for the others nothing is read.
RestoreOutcomes(rect, placement_minimized, visible) ==
    IF \/ rect.off \/ rect.width <= 0 \/ rect.height <= 0
       \/ placement_minimized \/ ~visible
    THEN RestoreResults
    ELSE {[raised |-> FALSE, rect |-> rect]}

\* lines 78-170: the window_info record of a matching window
WindowInfo(title, rect, placement_minimized, visible, foreground, restore) ==
    LET is_minimized == \/ rect.off
                        \/ rect.width <= 0
                        \/ rect.height <= 0
                        \/ placement_minimized
        restored == (is_minimized \/ ~visible \/ rect.width <= 0)
                        /\ ~restore.raised
        rect1 == IF restored THEN restore.rect ELSE rect
    IN  [is_super_strong |-> IsSuperStrong(title),
         is_strong_match |-> IsStrongMatch(title),
         is_foreground |-> foreground,
         is_minimized |-> IF restored THEN FALSE ELSE is_minimized,
         is_visible_area |-> (rect.width > 100 /\ rect.height > 100),
         \* lines 103-127: ShowWindow(hwnd, 9), ShowWindow(hwnd, 5),
         \* ShowWindow(hwnd, 1), SetForegroundWindow, BringWindowToTop were
         \* called on this window (not a key of window_info)
         restore_issued |-> (is_minimized \/ ~visible \/ rect.width <= 0),
         off |-> rect1.off,
         width |-> rect1.width,
         height |-> rect1.height,
         area |-> rect1.width * rect1.height]

\* enum_windows_callback(hwnd, windows): one window of the enumeration.
\* Windows without a title, without a Dentweb pattern, or whose rectangle
\* cannot be read are passed over.
enum_windows_callback ==
    /\ win_pc = "enum"
    /\ Len(dentweb_windows) < MaxWindows
    /\ \E title \in Titles, rect_raises \in BOOLEAN :
        IF \/ title = <<>>
           \/ ~(IsSuperStrong(title) \/ IsStrongMatch(title)
                  \/ IsGeneralMatch(title))
           \/ rect_raises
        THEN UNCHANGED dentweb_windows
        ELSE \E rect \in Rects, placement_minimized \in BOOLEAN,
                visible \in BOOLEAN, foreground \in BOOLEAN :
               \E restore \in RestoreOutcomes(rect, placement_minimized,
                                              visible) :
                  dentweb_windows' =
                     Append(dentweb_windows,
                            WindowInfo(title, rect, placement_minimized,
                                       visible, foreground, restore))
    /\ UNCHANGED <<win_pc, selected_window>>

\* max(candidates, key=lambda w: w['area']): the first of the largest
MaxArea(windows, candidates) ==
    CHOOSE i \in candidates :
        \A j \in candidates :
            \/ windows[j].area < windows[i].area
            \/ windows[j].area = windows[i].area /\ i <= j

\* lines 191-195 without the foreground_matches branch
ForegroundFirstIgnored(windows, tier) == MaxArea(windows, tier)

\* lines 191-195 and 206-210: foreground_matches first, else the tier
ForegroundFirst(windows, tier) ==
    LET fg == {i \in tier : windows[i].is_foreground}
    IN  IF fg # {} THEN MaxArea(windows, fg) ELSE MaxArea(windows, tier)

\* lines 183-237
SelectWindowLargest(windows) ==
    IF windows = <<>> THEN 0 ELSE MaxArea(windows, DOMAIN windows)

SelectWindow(windows) ==
    LET all == DOMAIN windows
        super_strong_matches == {i \in all : windows[i].is_super_strong}
        strong_matches == {i \in all : windows[i].is_strong_match}
        visible_windows == {i \in all : windows[i].is_visible_area}
    IN  IF windows = <<>> THEN 0
        ELSE IF super_strong_matches # {}
             THEN ForegroundFirst(windows, super_strong_matches)
        ELSE IF strong_matches # {}
             THEN ForegroundFirst(windows, strong_matches)
        ELSE IF visible_windows # {}
             THEN MaxArea(windows, visible_windows)
        ELSE 1

\* _ensure_window_restored(selected_window): when the window is still
\* hidden and the final sequence goes through, the record gets the final
\* rectangle and is_minimized False (width, height and area stay).
EnsureWindowRestored(windows, i, final) ==
    IF final.raised
    THEN windows
    ELSE [windows EXCEPT ![i].off = final.rect.off,
                         ![i].is_minimized = FALSE]

\* EnumWindows has returned: selection, final restore, return.
find_dentweb_window ==
    /\ win_pc = "enum"
    /\ win_pc' = "done"
    /\ selected_window' = SelectWindow(dentweb_windows)
    /\ IF SelectWindow(dentweb_windows) = 0
       THEN UNCHANGED dentweb_windows
       ELSE \E still_hidden \in BOOLEAN, final \in RestoreResults :
               dentweb_windows' =
                  IF still_hidden
                  THEN EnsureWindowRestored(dentweb_windows,
                                            SelectWindow(dentweb_windows), final)
                  ELSE dentweb_windows

InitWindowVars ==
    /\ win_pc = "enum"
    /\ dentweb_windows = <<>>
    /\ selected_window = 0

(***************************************************************************)
(* WebCephAutomation.detect_and_select_new_patient and the row matching of *)
(* _select_patient_by_matching.                                            *)
(***************************************************************************)
\* lines 902-909 and 1053-1071: the keys looked at, in this order
PatientFields == <<"chart_no", "name", "first_name", "last_name">>

FieldSet == {PatientFields[k] : k \in 1..Len(PatientFields)}

\* Row texts: none of the patient's values, the name only, all of them.
RowTexts == {{}, {"name"}, FieldSet}

\* line 1047: for element in patient_elements[:5]
ExaminedRows == 5

RECURSIVE RowLists(_)
RowLists(n) ==
    IF n = 0 THEN {<<>>}
    ELSE LET shorter == RowLists(n - 1)
         IN  shorter \cup {Append(rows, t) : rows \in {r \in shorter : Len(r) = n - 1},
                                            t \in RowTexts}

\* lines 1073-1074 with the threshold lowered to one matching field
ReachesThresholdAnyField(matches, total_checks) ==
    total_checks > 0 /\ matches >= 1

\* lines 1073-1074: if total_checks > 0 and matches / total_checks >= 0.5
ReachesThreshold(matches, total_checks) ==
    total_checks > 0 /\ 2 * matches >= total_checks

\* lines 1051-1071: the fields of patient_data that are present, and those
\* of them that occur in the row's text
RowMatches(present, text) ==
    ReachesThreshold(Cardinality(present \cap text), Cardinality(present))

NoDetection == [returned |-> FALSE, selected |-> 0, by |-> "none"]

\* _select_patient_by_matching, lines 1028-1099, for the first pattern whose
\* find_elements gives rows: the first of the five first rows that reaches
\* the threshold is clicked; when none does, the first row is clicked; a
\* click that raises, or no pattern with rows, ends in return False.
SelectByMatching(present, rows, raises) ==
    LET examined == 1..(IF Len(rows) < ExaminedRows THEN Len(rows)
                        ELSE ExaminedRows)
        matching == {k \in examined : RowMatches(present, rows[k])}
    IN  IF rows = <<>> \/ raises THEN NoDetection
        ELSE IF matching # {}
             THEN [returned |-> TRUE,
                   selected |-> CHOOSE k \in matching :
                                   \A j \in matching : k <= j,
                   by |-> "matching"]
        ELSE [returned |-> TRUE, selected |-> 1, by |-> "matching_fallback"]

select_patient_by_matching ==
    /\ det_fn = "none"
    /\ det_fn' = "_select_patient_by_matching"
    /\ det_calls' = <<>>
    /\ \E present \in SUBSET FieldSet, rows \in RowLists(MaxRows),
          raises \in BOOLEAN :
         /\ det_in' = present
         /\ det_rows' = rows
         /\ det_out' = SelectByMatching(present, rows, raises)

\* lines 901-909: search_keywords, in the order of the keys
SearchKeywords(present) ==
    SelectSeq(PatientFields, LAMBDA f : f \in present)

SearchCalls(present) ==
    [k \in 1..Len(SearchKeywords(present)) |->
        "_search_and_select_patient:" \o SearchKeywords(present)[k]]

\* The methods with the searches put first
DetectionMethodsSearchFirst(present) ==
    SearchCalls(present)
        \o <<"_select_first_patient_in_list", "_select_patient_by_matching">>

\* lines 911-927: method 1, the first item of the list; method 2, a search
\* for every keyword; method 3, the matching
DetectionMethods(present) ==
    <<"_select_first_patient_in_list">> \o SearchCalls(present)
        \o <<"_select_patient_by_matching">>

\* detect_and_select_new_patient, lines 886-933: the methods are called in
\* order until one returns True; driver.get or refresh raising ends the
\* call before any method.
detect_and_select_new_patient ==
    /\ det_fn = "none"
    /\ det_fn' = "detect_and_select_new_patient"
    /\ \E present \in SUBSET FieldSet, page_raises \in BOOLEAN,
          succeeding \in SUBSET {"_select_first_patient_in_list",
                                 "_search_and_select_patient:chart_no",
                                 "_search_and_select_patient:name"},
          rows \in RowLists(1) :
         LET methods == DetectionMethods(present)
             matched == SelectByMatching(present, rows, FALSE)
             Succeeds(m) == IF m = "_select_patient_by_matching"
                            THEN matched.returned ELSE m \in succeeding
             hits == {k \in 1..Len(methods) : Succeeds(methods[k])}
             last == IF hits = {} THEN Len(methods)
                     ELSE CHOOSE k \in hits : \A j \in hits : k <= j
         IN  /\ det_in' = present
             /\ det_rows' = rows
             /\ det_calls' = IF page_raises THEN <<>>
                             ELSE SubSeq(methods, 1, last)
             /\ det_out' =
                   IF page_raises \/ hits = {} THEN NoDetection
                   ELSE IF methods[last] = "_select_patient_by_matching"
                        THEN matched
                   ELSE [returned |-> TRUE, selected |-> 1,
                         by |-> methods[last]]

InitDetectVars ==
    /\ det_fn = "none"
    /\ det_in = {}
    /\ det_rows = <<>>
    /\ det_calls = <<>>
    /\ det_out = NoDetection

(***************************************************************************)
(* WebCephAutomation.wait_for_analysis_completion, one loop pass at a time *)
(***************************************************************************)
\* line 1355: check_interval = 15
CheckInterval == 15

\* line 1349: max_wait_minutes=10, and two shorter waits a caller may ask for
WaitMinutes == {0, 1, 10}

\* line 1354
MaxWaitSeconds(minutes) == minutes * 60

\* What one pass of the loop body finds: a completion indicator at the
\* first look, progress, no progress and the download button after the
\* 2 s, no progress and no button, or a driver call that raises.
PollOutcomes ==
    {"complete", "progress", "complete_after_no_progress", "nothing",
     "error"}

\* The loop body with the inner except left out: the error leaves the loop
\* and the function
AfterPollErrorEnds(outcome) ==
    IF outcome \in {"complete", "complete_after_no_progress"}
    THEN "returned"
    ELSE IF outcome = "error" THEN "raised" ELSE "sleep"

\* lines 1359-1390: return True, or go on to time.sleep(check_interval);
\* an exception of the body is caught at line 1388
AfterPoll(outcome) ==
    IF outcome \in {"complete", "complete_after_no_progress"}
    THEN "returned" ELSE "sleep"

\* line 1349: the call
wait_for_analysis_completion ==
    /\ wa_pc = "idle"
    /\ \E minutes \in WaitMinutes : wa_minutes' = minutes
    /\ wa_pc' = "poll"
    /\ wa_elapsed' = 0
    /\ UNCHANGED <<wa_polls, wa_errors, wa_seen>>

\* line 1357: for elapsed in range(0, max_wait_seconds, check_interval),
\* exhausted: line 1393 raises, line 1395 logs and raises again
wait_timeout ==
    /\ wa_pc = "poll"
    /\ wa_elapsed >= MaxWaitSeconds(wa_minutes)
    /\ wa_pc' = "raised"
    /\ UNCHANGED <<wa_minutes, wa_elapsed, wa_polls, wa_errors, wa_seen>>

\* lines 1358-1389: one pass of the loop body
wait_poll ==
    /\ wa_pc = "poll"
    /\ wa_elapsed < MaxWaitSeconds(wa_minutes)
    /\ \E outcome \in PollOutcomes :
         /\ wa_pc' = AfterPoll(outcome)
         /\ wa_errors' = wa_errors + (IF outcome = "error" THEN 1 ELSE 0)
         /\ wa_seen' = wa_seen
                + (IF outcome \in {"complete", "complete_after_no_progress"}
                   THEN 1 ELSE 0)
    /\ wa_polls' = wa_polls + 1
    /\ UNCHANGED <<wa_minutes, wa_elapsed>>

\* line 1391: time.sleep(check_interval), and the next value of the range
wait_sleep_interval ==
    /\ wa_pc = "sleep"
    /\ wa_pc' = "poll"
    /\ wa_elapsed' = wa_elapsed + CheckInterval
    /\ UNCHANGED <<wa_minutes, wa_polls, wa_errors, wa_seen>>

InitWaitVars ==
    /\ wa_pc = "idle"
    /\ wa_minutes = 0
    /\ wa_elapsed = 0
    /\ wa_polls = 0
    /\ wa_errors = 0
    /\ wa_seen = 0

(***************************************************************************)
(* The win32gui calls made on one window by the restore sequence of        *)
(* enum_windows_callback, by _ensure_window_restored and by                *)
(* capture_dentweb_screenshot, in the order they are made.                 *)
(***************************************************************************)
NoRect == [off |-> FALSE, width |-> 0, height |-> 0]

\* The rectangles GetWindowRect may return; 900x650 is between the two
\* size tests of capture_dentweb_screenshot.
ActRects == Rects \cup {[off |-> FALSE, width |-> 900, height |-> 650]}

Call(op) == [op |-> op, rect |-> NoRect]

Read(rect) == [op |-> "GetWindowRect", rect |-> rect]

\* The calls made until call number raise_at raised (0: no call raised).
UpToRaise(calls, raise_at) ==
    IF raise_at = 0 THEN calls ELSE SubSeq(calls, 1, raise_at)

\* line 141 with the test left out
NeedsMaximizeAlways(rect_after) == TRUE

\* line 141: if rect_after[0] < -30000 or rect_after[1] < -30000 or
\* (rect_after[2] - rect_after[0] <= 0)
NeedsMaximize(rect_after) == StillHidden(rect_after)

\* enum_windows_callback, lines 103-155, for a window that is minimized,
\* not visible or of no width.  A ShowWindow that raises ends the sequence;
\* SetForegroundWindow raising is caught at line 126 and skips the two
\* calls after it.
callback_restore ==
    /\ act_fn' = "enum_windows_callback"
    /\ \E rect_after \in ActRects, rect_max \in ActRects, raise_at \in 0..4 :
         LET shows == <<Call("SW_RESTORE"), Call("SW_SHOW"),
                        Call("SW_SHOWNORMAL")>>
             front == IF raise_at = 4
                      THEN <<Call("SetForegroundWindow")>>
                      ELSE <<Call("SetForegroundWindow"),
                             Call("BringWindowToTop"),
                             Call("SetActiveWindow")>>
         IN  act_log' =
                IF raise_at \in 1..3 THEN UpToRaise(shows, raise_at)
                ELSE shows \o front \o <<Read(rect_after)>>
                       \o (IF NeedsMaximize(rect_after)
                           THEN <<Call("SW_SHOWMAXIMIZED"), Read(rect_max)>>
                           ELSE <<>>)

\* line 258: the window is still minimized or not visible
StillHiddenOrInvisible(rect, is_visible) == StillHidden(rect) \/ ~is_visible

\* _ensure_window_restored, lines 243-303; any call that raises ends the
\* sequence (line 297).
ensure_window_restored ==
    /\ act_fn' = "_ensure_window_restored"
    /\ \E current_rect \in ActRects, is_visible \in BOOLEAN,
          final_rect \in ActRects, raise_at \in 0..6 :
         LET calls == <<Call("SW_RESTORE"), Call("SW_SHOW"),
                        Call("SW_SHOWNORMAL"), Call("SW_SHOWMAXIMIZED"),
                        Call("SetForegroundWindow"),
                        Call("BringWindowToTop")>>
         IN  act_log' =
                <<Read(current_rect)>>
                \o (IF ~StillHiddenOrInvisible(current_rect, is_visible)
                    THEN <<>>
                    ELSE IF raise_at # 0 THEN UpToRaise(calls, raise_at)
                    ELSE calls \o <<Read(final_rect)>>)

\* lines 342-343
TooSmallOrOff(rect) == rect.width < 1000 \/ rect.height < 700 \/ rect.off

\* lines 364-365
StillUnusable(rect) == rect.width < 800 \/ rect.height < 600 \/ rect.off

\* capture_dentweb_screenshot, lines 327-401, for a window that was found;
\* SetWindowPos raising is caught at line 389 and answered with
\* ShowWindow(hwnd, 3).
capture_dentweb_screenshot ==
    /\ act_fn' = "capture_dentweb_screenshot"
    /\ \E current_rect \in ActRects, final_rect \in ActRects,
          last_rect \in ActRects, pos_raises \in BOOLEAN :
         act_log' =
            <<Call("SW_RESTORE"), Read(current_rect)>>
            \o (IF TooSmallOrOff(current_rect)
                THEN <<Call("SW_SHOWMAXIMIZED")>> ELSE <<Call("SW_SHOW")>>)
            \o <<Call("SetForegroundWindow"), Read(final_rect)>>
            \o (IF StillUnusable(final_rect)
                THEN <<Call("SW_SHOWNORMAL"), Call("SetWindowPos")>>
                       \o (IF pos_raises THEN <<Call("SW_SHOWMAXIMIZED")>>
                           ELSE <<>>)
                       \o <<Read(last_rect)>>
                ELSE <<>>)

InitActivationVars ==
    /\ act_fn = "none"
    /\ act_log = <<>>

(***************************************************************************)
(* AutomationWorker: run() and wait_analysis() in the worker thread, line  *)
(* by line where a flag is read; pause(), resume() and stop() in the UI    *)
(* thread.  The worker reads the flags without taking the mutex.           *)
(***************************************************************************)
\* The steps that read patient_data and raise when a key is missing
\* (register_patient, download_pdf).
RaisingSteps == {3, 7}

Goto(pc) == w_pc' = pc

\* A signal of the worker: step_started(step), step_completed(step, ok),
\* progress_updated(int((i + 1) / total_steps * 100)) recorded by i + 1, and
\* automation_finished(ok), recorded with step 0.
Signal(sig, step, ok) == [sig |-> sig, step |-> step, ok |-> ok]

Emit(signals) == w_log' = w_log \o signals

WorkerFrame ==
    UNCHANGED <<is_paused, should_stop, stop_at, pause_at>>

\* line 59: if self.should_stop: break
run_check_stop ==
    /\ w_pc = "L59"
    /\ Goto(IF should_stop THEN "L93" ELSE "L63")
    /\ WorkerFrame
    /\ UNCHANGED <<w_step, w_iter, w_started, w_completed, w_finished,
                   started_after_stop, ticks_after_stop, spins_after_stop,
                   w_log, pause_spins>>

\* lines 63-64 without the loop: the thread goes on whatever the flag
run_pause_loop_skipped ==
    /\ w_pc = "L63"
    /\ Goto("L66")
    /\ WorkerFrame
    /\ UNCHANGED <<w_step, w_iter, w_started, w_completed, w_finished,
                   started_after_stop, ticks_after_stop, spins_after_stop,
                   w_log, pause_spins>>

\* lines 63-64 with the loop condition reduced to self.is_paused
run_pause_loop_ignores_stop ==
    /\ w_pc = "L63"
    /\ IF is_paused
       THEN /\ Goto("L63")
            /\ spins_after_stop' = spins_after_stop
                                     + (IF stop_at.set THEN 1 ELSE 0)
            /\ pause_spins' = pause_spins \cup {"L63"}
       ELSE /\ Goto("L66")
            /\ UNCHANGED <<spins_after_stop, pause_spins>>
    /\ WorkerFrame
    /\ UNCHANGED <<w_step, w_iter, w_started, w_completed, w_finished,
                   started_after_stop, ticks_after_stop, w_log>>

\* lines 63-64: while self.is_paused and not self.should_stop: msleep(100)
run_pause_loop ==
    /\ w_pc = "L63"
    /\ IF is_paused /\ ~should_stop
       THEN /\ Goto("L63")
            /\ spins_after_stop' = spins_after_stop
                                     + (IF stop_at.set THEN 1 ELSE 0)
            /\ pause_spins' = pause_spins \cup {"L63"}
       ELSE /\ Goto("L66")
            /\ UNCHANGED <<spins_after_stop, pause_spins>>
    /\ WorkerFrame
    /\ UNCHANGED <<w_step, w_iter, w_started, w_completed, w_finished,
                   started_after_stop, ticks_after_stop, w_log>>

\* line 66: if self.should_stop: break
run_check_stop_again_ignored ==
    /\ w_pc = "L66"
    /\ Goto("L70")
    /\ WorkerFrame
    /\ UNCHANGED <<w_step, w_iter, w_started, w_completed, w_finished,
                   started_after_stop, ticks_after_stop, spins_after_stop,
                   w_log, pause_spins>>

run_check_stop_again ==
    /\ w_pc = "L66"
    /\ Goto(IF should_stop THEN "L93" ELSE "L70")
    /\ WorkerFrame
    /\ UNCHANGED <<w_step, w_iter, w_started, w_completed, w_finished,
                   started_after_stop, ticks_after_stop, spins_after_stop,
                   w_log, pause_spins>>

\* lines 70-74: step_started.emit(...); step_func() is entered
run_step_started ==
    /\ w_pc = "L70"
    /\ w_started' = w_started \cup {w_step}
    /\ Emit(<<Signal("step_started", w_step, "-")>>)
    /\ started_after_stop' = IF should_stop
                             THEN started_after_stop \cup {w_step}
                             ELSE started_after_stop
    /\ IF w_step = AnalysisWaitStep
       THEN Goto("W140") /\ w_iter' = 0
       ELSE Goto("L74") /\ UNCHANGED w_iter
    /\ WorkerFrame
    /\ UNCHANGED <<w_step, w_completed, w_finished, ticks_after_stop,
                   spins_after_stop, pause_spins>>

\* lines 79-81 left out: after step_completed(False) the loop goes on
StepReturnedGoesOn(success) ==
    /\ w_completed' = w_completed \cup {w_step}
    /\ UNCHANGED w_finished
    /\ Emit(<<Signal("step_completed", w_step, IF success THEN "True"
                                                ELSE "False"),
              Signal("progress_updated", w_step, "-")>>)
    /\ IF w_step = NumSteps
       THEN Goto("L93") /\ UNCHANGED w_step
       ELSE Goto("L59") /\ w_step' = w_step + 1

\* lines 77-91: step_completed.emit(...), then automation_finished(False)
\* and return, or progress_updated and the next entry of steps.
StepReturned(success) ==
    /\ w_completed' = w_completed \cup {w_step}
    /\ IF ~success
       THEN /\ w_finished' = "False"
            /\ Emit(<<Signal("step_completed", w_step, "False"),
                      Signal("automation_finished", 0, "False")>>)
            /\ Goto("done")
            /\ UNCHANGED w_step
       ELSE /\ UNCHANGED w_finished
            /\ Emit(<<Signal("step_completed", w_step, "True"),
                      Signal("progress_updated", w_step, "-")>>)
            /\ IF w_step = NumSteps
               THEN Goto("L93") /\ UNCHANGED w_step
               ELSE Goto("L59") /\ w_step' = w_step + 1

\* line 74: a step other than wait_analysis runs to its end
run_step_func ==
    /\ w_pc = "L74"
    /\ \E raises \in BOOLEAN :
        /\ raises => w_step \in RaisingSteps
        /\ StepReturned(~raises)
    /\ WorkerFrame
    /\ UNCHANGED <<w_iter, w_started, started_after_stop, ticks_after_stop,
                   spins_after_stop, pause_spins>>

\* wait_analysis, lines 139-141: for i in range(30): if self.should_stop:
\* return False; after the last iteration return True
wait_check_stop ==
    /\ w_pc = "W140"
    /\ IF w_iter = WaitIterations
       THEN StepReturned(TRUE)
       ELSE IF should_stop
            THEN StepReturned(FALSE)
            ELSE /\ Goto("W143")
                 /\ UNCHANGED <<w_step, w_completed, w_finished, w_log>>
    /\ WorkerFrame
    /\ UNCHANGED <<w_iter, w_started, started_after_stop, ticks_after_stop,
                   spins_after_stop, pause_spins>>

\* wait_analysis, lines 143-144
wait_pause_loop ==
    /\ w_pc = "W143"
    /\ IF is_paused /\ ~should_stop
       THEN /\ Goto("W143")
            /\ spins_after_stop' = spins_after_stop
                                     + (IF stop_at.set THEN 1 ELSE 0)
            /\ pause_spins' = pause_spins \cup {"W143"}
       ELSE /\ Goto("W146")
            /\ UNCHANGED <<spins_after_stop, pause_spins>>
    /\ WorkerFrame
    /\ UNCHANGED <<w_step, w_iter, w_started, w_completed, w_finished,
                   started_after_stop, ticks_after_stop, w_log>>

\* wait_analysis, line 146: self.msleep(1000)
wait_sleep ==
    /\ w_pc = "W146"
    /\ Goto("W140")
    /\ w_iter' = w_iter + 1
    /\ ticks_after_stop' = ticks_after_stop + (IF should_stop THEN 1 ELSE 0)
    /\ WorkerFrame
    /\ UNCHANGED <<w_step, w_started, w_completed, w_finished,
                   started_after_stop, spins_after_stop, w_log, pause_spins>>

\* line 94 without the test of line 93
run_finish_unconditional ==
    /\ w_pc = "L93"
    /\ Goto("done")
    /\ w_finished' = "True"
    /\ Emit(<<Signal("automation_finished", 0, "True")>>)
    /\ WorkerFrame
    /\ UNCHANGED <<w_step, w_iter, w_started, w_completed,
                   started_after_stop, ticks_after_stop, spins_after_stop,
                   pause_spins>>

\* lines 93-94: if not self.should_stop: automation_finished.emit(True, ...)
run_finish ==
    /\ w_pc = "L93"
    /\ Goto("done")
    /\ w_finished' = IF should_stop THEN w_finished ELSE "True"
    /\ Emit(IF should_stop THEN <<>>
            ELSE <<Signal("automation_finished", 0, "True")>>)
    /\ WorkerFrame
    /\ UNCHANGED <<w_step, w_iter, w_started, w_completed,
                   started_after_stop, ticks_after_stop, spins_after_stop,
                   pause_spins>>

NotPaused == [set |-> FALSE, pc |-> "none", step |-> 0, iter |-> 0,
              started |-> {}]

UiFrame ==
    UNCHANGED <<w_pc, w_step, w_iter, w_started, w_completed, w_finished,
                started_after_stop, ticks_after_stop, spins_after_stop,
                w_log, pause_spins>>

\* pause(), lines 172-176
pause ==
    /\ ~is_paused
    /\ is_paused' = TRUE
    /\ pause_at' = [set |-> TRUE, pc |-> w_pc, step |-> w_step,
                    iter |-> w_iter, started |-> w_started]
    /\ UNCHANGED <<should_stop, stop_at>>
    /\ UiFrame

\* resume(), lines 178-182
resume ==
    /\ is_paused
    /\ is_paused' = FALSE
    /\ pause_at' = NotPaused
    /\ UNCHANGED <<should_stop, stop_at>>
    /\ UiFrame

\* stop(), lines 184-189
stop ==
    /\ ~should_stop \/ is_paused
    /\ should_stop' = TRUE
    /\ is_paused' = FALSE
    /\ pause_at' = NotPaused
    /\ stop_at' = IF stop_at.set THEN stop_at
                  ELSE [set |-> TRUE, pc |-> w_pc, step |-> w_step,
                        paused |-> is_paused]
    /\ UiFrame

InitWorkerVars ==
    /\ w_pc = "L59"
    /\ w_step = 1
    /\ w_iter = 0
    /\ is_paused = FALSE
    /\ should_stop = FALSE
    /\ w_started = {}
    /\ w_completed = {}
    /\ w_finished = "none"
    /\ stop_at = [set |-> FALSE, pc |-> "none", step |-> 0,
                  paused |-> FALSE]
    /\ started_after_stop = {}
    /\ ticks_after_stop = 0
    /\ spins_after_stop = 0
    /\ w_log = <<>>
    /\ pause_spins = {}
    /\ pause_at = NotPaused

(***************************************************************************)
(* AutomationMonitorWidget: start_patient_process, stop_automation and the *)
(* slots connected to the worker's signals.  Every AutomationWorker is a   *)
(* thread of its own; the w_* variables hold one of them at a time.        *)
(***************************************************************************)
Workers == {1, 2}

\* The stages whose call sleeps longer than the 3000 ms stop_automation
\* waits: upload_images, msleep(4000) and msleep(3000).
LongSteps == {4}

ThreadState ==
    [w_pc |-> w_pc, w_step |-> w_step, w_iter |-> w_iter,
     is_paused |-> is_paused, should_stop |-> should_stop,
     w_started |-> w_started, w_completed |-> w_completed,
     w_finished |-> w_finished, stop_at |-> stop_at,
     started_after_stop |-> started_after_stop,
     ticks_after_stop |-> ticks_after_stop,
     spins_after_stop |-> spins_after_stop, w_log |-> w_log,
     pause_spins |-> pause_spins, pause_at |-> pause_at]

LoadThread(t) ==
    /\ w_pc' = t.w_pc /\ w_step' = t.w_step /\ w_iter' = t.w_iter
    /\ is_paused' = t.is_paused /\ should_stop' = t.should_stop
    /\ w_started' = t.w_started /\ w_completed' = t.w_completed
    /\ w_finished' = t.w_finished /\ stop_at' = t.stop_at
    /\ started_after_stop' = t.started_after_stop
    /\ ticks_after_stop' = t.ticks_after_stop
    /\ spins_after_stop' = t.spins_after_stop /\ w_log' = t.w_log
    /\ pause_spins' = t.pause_spins /\ pause_at' = t.pause_at

\* AutomationWorker.__init__ and start(): the thread is about to enter run()
NewThread ==
    [w_pc |-> "L59", w_step |-> 1, w_iter |-> 0, is_paused |-> FALSE,
     should_stop |-> FALSE, w_started |-> {}, w_completed |-> {},
     w_finished |-> "none",
     stop_at |-> [set |-> FALSE, pc |-> "none", step |-> 0,
                  paused |-> FALSE],
     started_after_stop |-> {}, ticks_after_stop |-> 0,
     spins_after_stop |-> 0, w_log |-> <<>>, pause_spins |-> {},
     pause_at |-> NotPaused]

ThreadOf(w) == IF w = focus THEN ThreadState ELSE threads[w]

\* The thread of worker w is inside run().
Executing(w) == w \in 1..m_started /\ ThreadOf(w).w_pc # "done"

\* Signals emitted and not yet delivered.
Pending(w) == w \in 1..m_started /\ delivered[w] < Len(ThreadOf(w).w_log)

\* The event loop runs the slots of the signals posted so far before it
\* handles the operator's next click.
NothingPending == \A w \in Workers : ~Pending(w)

\* The scheduler runs another worker's thread.
switch_thread ==
    /\ focus # 0
    /\ \E w \in (1..m_started) \ {focus} :
         /\ threads[w].w_pc # "done" \/ w = automation_worker
         /\ focus' = w
         /\ threads' = [threads EXCEPT ![focus] = ThreadState]
         /\ LoadThread(threads[w])
    /\ UNCHANGED <<m_is_running, automation_worker, m_started, m_pc,
                   delivered, m_last>>

\* start_patient_process, lines 537-566
start_patient_process ==
    /\ m_pc = "idle" /\ NothingPending
    /\ ~m_is_running
    /\ m_started < Cardinality(Workers)
    /\ m_started' = m_started + 1
    /\ automation_worker' = m_started + 1
    /\ focus' = m_started + 1
    /\ threads' = IF focus = 0 THEN threads
                  ELSE [threads EXCEPT ![focus] = ThreadState]
    /\ LoadThread(NewThread)
    /\ m_is_running' = TRUE
    /\ UNCHANGED <<m_pc, delivered, m_last>>

\* stop_automation, lines 640-651, the operator answering Yes: stop(), then
\* the UI thread blocks in wait(3000)
stop_automation ==
    /\ m_pc = "idle" /\ NothingPending
    /\ automation_worker # 0 /\ m_is_running
    /\ focus = automation_worker
    /\ stop
    /\ m_pc' = "wait"
    /\ UNCHANGED <<m_is_running, automation_worker, m_started, focus, threads,
                   delivered, m_last>>

\* stop_automation, lines 651-659: wait(3000) returns, because the thread
\* has left run() or because 3000 ms have passed while it is inside a
\* stage call that lasts longer; is_running is cleared in both cases
stop_automation_wait_returns ==
    /\ m_pc = "wait"
    /\ focus = automation_worker
    /\ w_pc = "done" \/ (w_pc = "L74" /\ w_step \in LongSteps)
    /\ m_pc' = "idle"
    /\ m_is_running' = FALSE
    /\ UNCHANGED <<kvars, automation_worker, m_started, focus, threads,
                   delivered, m_last>>

\* A queued signal of worker w reaches its slot (on_step_started,
\* on_step_completed, on_progress_updated, on_automation_finished).
deliver_signal ==
    /\ m_pc = "idle"
    /\ \E w \in Workers :
         /\ Pending(w)
         /\ LET sig == ThreadOf(w).w_log[delivered[w] + 1] IN
            /\ delivered' = [delivered EXCEPT ![w] = @ + 1]
            /\ m_last' = [worker |-> w, sig |-> sig,
                          current |-> automation_worker,
                          running |-> m_is_running]
            /\ m_is_running' = IF sig.sig = "automation_finished" THEN FALSE
                               ELSE m_is_running
    /\ UNCHANGED <<kvars, automation_worker, m_started, m_pc, focus, threads>>

NoSignal ==
    [worker |-> 0, sig |-> Signal("none", 0, "-"), current |-> 0,
     running |-> FALSE]

InitMonitorVars ==
    /\ m_is_running = FALSE
    /\ automation_worker = 0
    /\ m_started = 0
    /\ m_pc = "idle"
    /\ focus = 0
    /\ threads = [w \in Workers |-> NewThread]
    /\ delivered = [w \in Workers |-> 0]
    /\ m_last = NoSignal

(***************************************************************************)
(* Specifications: one per component; the other components stay in their   *)
(* initial state.                                                          *)
(***************************************************************************)
\* The other components at rest.
IdleQueue == InitQueueVars
IdleFlow == InitFlowVars /\ settings_ok = TRUE
IdleLocator == InitLocatorVars
IdleWindow == InitWindowVars
IdleWorker == InitWorkerVars
IdleThreads == InitThreadVars
IdlePatient == InitPatientVars
IdleMonitor == InitMonitorVars
IdleActivation == InitActivationVars
IdleDetect == InitDetectVars
IdleWait == InitWaitVars

InitQueue ==
    InitQueueVars /\ IdleFlow /\ IdleLocator /\ IdleWindow /\ IdleWorker
        /\ IdleThreads /\ IdlePatient /\ IdleMonitor /\ IdleActivation /\ IdleDetect /\ IdleWait

NextQueue ==
    \/ create_patient_record /\ UNCHANGED <<fvars, lvars, wvars, kvars, cvars, pvars, mvars, avars, dvars, uvars>>
    \/ update_analysis_result /\ UNCHANGED <<fvars, lvars, wvars, kvars, cvars, pvars, mvars, avars, dvars, uvars>>
    \/ process_offline_queue /\ UNCHANGED <<fvars, lvars, wvars, kvars, cvars, pvars, mvars, avars, dvars, uvars>>

SpecQueue == InitQueue /\ [][NextQueue]_vars

InitFlow ==
    InitFlowVars /\ IdleQueue /\ IdleLocator /\ IdleWindow /\ IdleWorker
        /\ IdleThreads /\ IdlePatient /\ IdleMonitor /\ IdleActivation /\ IdleDetect /\ IdleWait

NextFlow ==
    \/ \E s \in Steps : execute_step(s) /\ UNCHANGED <<qvars, lvars, wvars, kvars, cvars, pvars, mvars, avars, dvars, uvars>>
    \/ ocr_dialog_reply /\ UNCHANGED <<qvars, lvars, wvars, kvars, cvars, pvars, mvars, avars, dvars, uvars>>
    \/ ocr_worker_run /\ UNCHANGED <<qvars, lvars, wvars, kvars, cvars, pvars, mvars, avars, dvars, uvars>>
    \/ on_patient_info_extracted /\ UNCHANGED <<qvars, lvars, wvars, kvars, cvars, pvars, mvars, avars, dvars, uvars>>
    \/ on_automation_error /\ UNCHANGED <<qvars, lvars, wvars, kvars, cvars, pvars, mvars, avars, dvars, uvars>>
    \/ run_webceph_process /\ UNCHANGED <<qvars, lvars, wvars, kvars, cvars, pvars, mvars, avars, dvars, uvars>>
    \/ complete_webceph_analysis /\ UNCHANGED <<qvars, lvars, wvars, kvars, cvars, pvars, mvars, avars, dvars, uvars>>
    \/ simulate_pdf_download /\ UNCHANGED <<qvars, lvars, wvars, kvars, cvars, pvars, mvars, avars, dvars, uvars>>
    \/ complete_pdf_download /\ UNCHANGED <<qvars, lvars, wvars, kvars, cvars, pvars, mvars, avars, dvars, uvars>>
    \/ settings_changed /\ UNCHANGED <<qvars, lvars, wvars, kvars, cvars, pvars, mvars, avars, dvars, uvars>>

SpecFlow == InitFlow /\ [][NextFlow]_vars

InitLocator ==
    InitLocatorVars /\ IdleQueue /\ IdleFlow /\ IdleWindow /\ IdleWorker
        /\ IdleThreads /\ IdlePatient /\ IdleMonitor /\ IdleActivation /\ IdleDetect /\ IdleWait

\* Each function is applied once, to the page it is called on; no call
\* uses the result of another.
NextLocator ==
    \/ find_email_field /\ UNCHANGED <<qvars, fvars, wvars, kvars, cvars, pvars, mvars, avars, dvars, uvars>>
    \/ find_password_field /\ UNCHANGED <<qvars, fvars, wvars, kvars, cvars, pvars, mvars, avars, dvars, uvars>>
    \/ input_credentials /\ UNCHANGED <<qvars, fvars, wvars, kvars, cvars, pvars, mvars, avars, dvars, uvars>>
    \/ click_login_button /\ UNCHANGED <<qvars, fvars, wvars, kvars, cvars, pvars, mvars, avars, dvars, uvars>>
    \/ click_create_button /\ UNCHANGED <<qvars, fvars, wvars, kvars, cvars, pvars, mvars, avars, dvars, uvars>>
    \/ click_new_patient_button /\ UNCHANGED <<qvars, fvars, wvars, kvars, cvars, pvars, mvars, avars, dvars, uvars>>

SpecLocator == InitLocator /\ [][NextLocator]_vars

InitWindow ==
    InitWindowVars /\ IdleQueue /\ IdleFlow /\ IdleLocator /\ IdleWorker
        /\ IdleThreads /\ IdlePatient /\ IdleMonitor /\ IdleActivation /\ IdleDetect /\ IdleWait

NextWindow ==
    \/ enum_windows_callback /\ UNCHANGED <<qvars, fvars, lvars, kvars, cvars, pvars, mvars, avars, dvars, uvars>>
    \/ find_dentweb_window /\ UNCHANGED <<qvars, fvars, lvars, kvars, cvars, pvars, mvars, avars, dvars, uvars>>

SpecWindow == InitWindow /\ [][NextWindow]_vars

InitWorker ==
    InitWorkerVars /\ IdleQueue /\ IdleFlow /\ IdleLocator /\ IdleWindow
        /\ IdleThreads /\ IdlePatient /\ IdleMonitor /\ IdleActivation /\ IdleDetect /\ IdleWait

NextWorker ==
    \/ run_check_stop /\ UNCHANGED <<qvars, fvars, lvars, wvars, cvars, pvars, mvars, avars, dvars, uvars>>
    \/ run_pause_loop /\ UNCHANGED <<qvars, fvars, lvars, wvars, cvars, pvars, mvars, avars, dvars, uvars>>
    \/ run_check_stop_again /\ UNCHANGED <<qvars, fvars, lvars, wvars, cvars, pvars, mvars, avars, dvars, uvars>>
    \/ run_step_started /\ UNCHANGED <<qvars, fvars, lvars, wvars, cvars, pvars, mvars, avars, dvars, uvars>>
    \/ run_step_func /\ UNCHANGED <<qvars, fvars, lvars, wvars, cvars, pvars, mvars, avars, dvars, uvars>>
    \/ wait_check_stop /\ UNCHANGED <<qvars, fvars, lvars, wvars, cvars, pvars, mvars, avars, dvars, uvars>>
    \/ wait_pause_loop /\ UNCHANGED <<qvars, fvars, lvars, wvars, cvars, pvars, mvars, avars, dvars, uvars>>
    \/ wait_sleep /\ UNCHANGED <<qvars, fvars, lvars, wvars, cvars, pvars, mvars, avars, dvars, uvars>>
    \/ run_finish /\ UNCHANGED <<qvars, fvars, lvars, wvars, cvars, pvars, mvars, avars, dvars, uvars>>
    \/ pause /\ UNCHANGED <<qvars, fvars, lvars, wvars, cvars, pvars, mvars, avars, dvars, uvars>>
    \/ resume /\ UNCHANGED <<qvars, fvars, lvars, wvars, cvars, pvars, mvars, avars, dvars, uvars>>
    \/ stop /\ UNCHANGED <<qvars, fvars, lvars, wvars, cvars, pvars, mvars, avars, dvars, uvars>>

SpecWorker == InitWorker /\ [][NextWorker]_vars

\* A step of the worker thread: QThread.start() has been called and the
\* operating system keeps scheduling the thread until run() returns.
WorkerRun ==
    /\ \/ run_check_stop \/ run_pause_loop \/ run_check_stop_again
       \/ run_step_started \/ run_step_func \/ wait_check_stop
       \/ wait_pause_loop \/ wait_sleep \/ run_finish
    /\ UNCHANGED <<qvars, fvars, lvars, wvars, cvars, pvars, mvars, avars, dvars, uvars>>

SpecWorkerFair == InitWorker /\ [][NextWorker]_vars /\ WF_vars(WorkerRun)

InitThreads ==
    InitThreadVars /\ IdleQueue /\ IdleFlow /\ IdleLocator /\ IdleWindow
        /\ IdleWorker /\ IdlePatient /\ IdleMonitor /\ IdleActivation /\ IdleDetect /\ IdleWait

NextThreads ==
    \/ \E t \in EnqThreads :
         add_to_offline_queue_read(t) /\ UNCHANGED <<fvars, lvars, wvars, kvars, pvars, mvars, avars, dvars, uvars>>
    \/ \E t \in EnqThreads :
         add_to_offline_queue_write(t) /\ UNCHANGED <<fvars, lvars, wvars, kvars, pvars, mvars, avars, dvars, uvars>>
    \/ process_offline_queue_read /\ UNCHANGED <<fvars, lvars, wvars, kvars, pvars, mvars, avars, dvars, uvars>>
    \/ process_offline_queue_write /\ UNCHANGED <<fvars, lvars, wvars, kvars, pvars, mvars, avars, dvars, uvars>>

SpecThreads == InitThreads /\ [][NextThreads]_vars

\* The two ways of driving WebCeph: a behaviour either is one of the
\* widget's or consists of calls of the process_* functions.
InitSettings ==
    /\ InitFlowVars /\ IdleQueue /\ IdleLocator /\ IdleWindow /\ IdleWorker
    /\ IdleThreads /\ IdleMonitor /\ IdleActivation /\ IdleDetect /\ IdleWait
    /\ entry \in {"widget", "library"}
    /\ pp_result = NoResult

NextSettings ==
    \/ entry = "widget" /\ NextFlow
    \/ entry = "library" /\ process_patient
          /\ UNCHANGED <<qvars, fvars, lvars, wvars, kvars, cvars, mvars, avars, dvars, uvars>>
    \/ entry = "library" /\ process_new_patient
          /\ UNCHANGED <<qvars, fvars, lvars, wvars, kvars, cvars, mvars, avars, dvars, uvars>>

SpecSettings == InitSettings /\ [][NextSettings]_vars

InitMonitor ==
    /\ InitMonitorVars /\ InitWorkerVars
    /\ IdleQueue /\ IdleFlow /\ IdleLocator /\ IdleWindow /\ IdleThreads
    /\ IdlePatient /\ IdleActivation /\ IdleDetect /\ IdleWait

\* A step of the thread the w_* variables describe.
ThreadStep ==
    /\ focus # 0
    /\ \/ run_check_stop \/ run_pause_loop \/ run_check_stop_again
       \/ run_step_started \/ run_step_func \/ wait_check_stop
       \/ wait_pause_loop \/ wait_sleep \/ run_finish
    /\ UNCHANGED mvars

NextMonitor ==
    \/ start_patient_process /\ UNCHANGED <<qvars, fvars, lvars, wvars, cvars, pvars, avars, dvars, uvars>>
    \/ stop_automation /\ UNCHANGED <<qvars, fvars, lvars, wvars, cvars, pvars, avars, dvars, uvars>>
    \/ stop_automation_wait_returns /\ UNCHANGED <<qvars, fvars, lvars, wvars, cvars, pvars, avars, dvars, uvars>>
    \/ deliver_signal /\ UNCHANGED <<qvars, fvars, lvars, wvars, cvars, pvars, avars, dvars, uvars>>
    \/ switch_thread /\ UNCHANGED <<qvars, fvars, lvars, wvars, cvars, pvars, avars, dvars, uvars>>
    \/ ThreadStep /\ UNCHANGED <<qvars, fvars, lvars, wvars, cvars, pvars, avars, dvars, uvars>>

SpecMonitor == InitMonitor /\ [][NextMonitor]_vars

InitActivation ==
    /\ InitActivationVars
    /\ IdleQueue /\ IdleFlow /\ IdleLocator /\ IdleWindow /\ IdleWorker
    /\ IdleThreads /\ IdlePatient /\ IdleMonitor /\ IdleDetect /\ IdleWait

NextActivation ==
    \/ callback_restore /\ UNCHANGED <<qvars, fvars, lvars, wvars, kvars, cvars, pvars, mvars, dvars, uvars>>
    \/ ensure_window_restored /\ UNCHANGED <<qvars, fvars, lvars, wvars, kvars, cvars, pvars, mvars, dvars, uvars>>
    \/ capture_dentweb_screenshot /\ UNCHANGED <<qvars, fvars, lvars, wvars, kvars, cvars, pvars, mvars, dvars, uvars>>

SpecActivation == InitActivation /\ [][NextActivation]_vars

InitDetect ==
    /\ InitDetectVars
    /\ IdleQueue /\ IdleFlow /\ IdleLocator /\ IdleWindow /\ IdleWorker
    /\ IdleThreads /\ IdlePatient /\ IdleMonitor /\ IdleActivation
    /\ IdleWait

NextDetect ==
    \/ detect_and_select_new_patient /\ UNCHANGED <<qvars, fvars, lvars, wvars, kvars, cvars, pvars, mvars, avars, uvars>>
    \/ select_patient_by_matching /\ UNCHANGED <<qvars, fvars, lvars, wvars, kvars, cvars, pvars, mvars, avars, uvars>>

SpecDetect == InitDetect /\ [][NextDetect]_vars

InitWait ==
    /\ InitWaitVars
    /\ IdleQueue /\ IdleFlow /\ IdleLocator /\ IdleWindow /\ IdleWorker
    /\ IdleThreads /\ IdlePatient /\ IdleMonitor /\ IdleActivation
    /\ IdleDetect

NextWait ==
    \/ wait_for_analysis_completion /\ UNCHANGED <<qvars, fvars, lvars, wvars, kvars, cvars, pvars, mvars, avars, dvars>>
    \/ wait_timeout /\ UNCHANGED <<qvars, fvars, lvars, wvars, kvars, cvars, pvars, mvars, avars, dvars>>
    \/ wait_poll /\ UNCHANGED <<qvars, fvars, lvars, wvars, kvars, cvars, pvars, mvars, avars, dvars>>
    \/ wait_sleep_interval /\ UNCHANGED <<qvars, fvars, lvars, wvars, kvars, cvars, pvars, mvars, avars, dvars>>

\* The thread that called the function keeps running: a pass of the body
\* and a sleep both come to an end.
WaitRun ==
    /\ wait_timeout \/ wait_poll \/ wait_sleep_interval
    /\ UNCHANGED <<qvars, fvars, lvars, wvars, kvars, cvars, pvars, mvars, avars, dvars>>

SpecWait == InitWait /\ [][NextWait]_vars /\ WF_vars(WaitRun)

\* The items of the store, by identity.
InStore(u) == \E i \in 1..Len(queue_file) : queue_file[i].uid = u
StoreItem(u) == queue_file[CHOOSE i \in 1..Len(queue_file) : queue_file[i].uid = u]
AllFail(h) == \A i \in 1..Len(h) : h[i] = "fail"
CountOutcome(o, kind) == Cardinality({u \in DOMAIN o : o[u] = kind})
SyncActionType(call) ==
    IF call = "create_patient_record" THEN "create_patient" ELSE "update_result"

(***************************************************************************)
(* Claims on the offline queue.                                            *)
(***************************************************************************)

\* C1: whenever create_patient_record or update_analysis_result returns
\* success=False, the call has appended a queue item of its action type
\* ('create_patient' / 'update_result') with retry_count 0 to the store:
\* a failed sync is never reported without its item being in the store.
C1_FailedSyncIsQueued ==
    (lastCall \in {"create_patient_record", "update_analysis_result"}
        /\ ~lastResult.success)
    => /\ lastResult.enq # 0
       /\ file_exists
       /\ InStore(lastResult.enq)
       /\ StoreItem(lastResult.enq).retry_count = 0
       /\ StoreItem(lastResult.enq).action_type = SyncActionType(lastCall)

\* C2: an item whose remote call fails on every replay is attempted by
\* exactly MaxRetries (3) replays: after the 1st and the 2nd failed replay it
\* is in the store (retry_count = number of failed replays), the 3rd removes
\* it and counts it in 'failed', and no later replay attempts it again.
C2_AlwaysFailingRetriedThreeTimes ==
    /\ \A u \in Uids :
         /\ (fate[u] # "absent" /\ AllFail(hist[u]) /\ Len(hist[u]) < MaxRetries)
               => /\ InStore(u)
                  /\ StoreItem(u).retry_count = Len(hist[u])
                  /\ fate[u] = "queued"
         /\ (AllFail(hist[u]) /\ Len(hist[u]) >= MaxRetries)
               => /\ Len(hist[u]) = MaxRetries
                  /\ ~InStore(u)
                  /\ fate[u] = "failed"
         /\ fate[u] = "failed"
               => /\ hist[u] = <<"fail", "fail", "fail">>
                  /\ ~InStore(u)
         /\ (lastCall = "process_offline_queue"
                /\ u \in DOMAIN lastResult.outcome
                /\ AllFail(hist[u]) /\ Len(hist[u]) = MaxRetries)
               => /\ lastResult.outcome[u] = "failed"
                  /\ lastResult.failed >= 1
    /\ sumFailed = Cardinality({u \in Uids : fate[u] = "failed"})

C2_Witness ==
    \E u \in Uids :
        /\ hist[u] = <<"fail", "fail", "fail">>
        /\ fate[u] = "failed"
        /\ lastCall = "process_offline_queue"
        /\ lastResult.snapshot >= 1
        /\ u \notin DOMAIN lastResult.outcome

\* C3: an item whose remote call fails on the first replay and succeeds on
\* the second is in the store with retry_count 1 after the first replay; the
\* second replay removes it and counts it in 'processed' (not in 'failed',
\* not in 'remaining'); no later replay attempts it.
C3_SecondAttemptSuccessProcessed ==
    /\ \A u \in Uids :
         /\ hist[u] = <<"fail">>
               => /\ InStore(u)
                  /\ StoreItem(u).retry_count = 1
         /\ (Len(hist[u]) >= 2 /\ hist[u][1] = "fail" /\ hist[u][2] = "ok")
               => /\ hist[u] = <<"fail", "ok">>
                  /\ ~InStore(u)
                  /\ fate[u] = "processed"
         /\ (lastCall = "process_offline_queue"
                /\ u \in DOMAIN lastResult.outcome
                /\ hist[u] = <<"fail", "ok">>)
               => lastResult.outcome[u] = "processed"
    /\ lastCall = "process_offline_queue"
          => /\ lastResult.processed = CountOutcome(lastResult.outcome, "processed")
             /\ lastResult.failed = CountOutcome(lastResult.outcome, "failed")
             /\ lastResult.remaining = CountOutcome(lastResult.outcome, "kept")
             /\ lastResult.remaining = Len(queue_file)
    /\ sumProcessed = Cardinality({u \in Uids : fate[u] = "processed"})

C3_Witness ==
    \E u \in Uids :
        /\ hist[u] = <<"fail", "ok">>
        /\ fate[u] = "processed"
        /\ lastCall = "process_offline_queue"
        /\ u \in DOMAIN lastResult.outcome
        /\ lastResult.processed >= 1

(***************************************************************************)
(* AutomationFlowWidget claims                                             *)
(***************************************************************************)
PriorCompleted(status, s) == \A i \in 1..(s - 1) : status[i] = "completed"

WritesTo(st) == {k \in 1..Len(writes) : writes[k].to = st}

\* C4: a stage enters 'running' through execute_step only if every earlier
\* stage is 'completed' or the request is a re-run of that very stage (its
\* button shows 재실행/재시도).  A first-run request with an earlier stage not
\* completed changes nothing; with stage 2 failed a request to run pending
\* stage 3 is refused as out of order, and once stages 1 and 2 are completed
\* (stage 2 re-run to completion) the same request is accepted and stage 3
\* is 'running'.
C4_OrderingGuard ==
    lastAction = "execute_step" =>
        LET r == lastReq
            prior == PriorCompleted(r.before, r.step)
        IN  /\ \A k \in WritesTo("running") :
                /\ writes[k].step = r.step
                /\ r.rerun \/ prior
            /\ (~r.rerun /\ ~prior) =>
                /\ r.verdict # "accepted"
                /\ writes = <<>>
                /\ automation_steps = r.before
            /\ (r.step = 3 /\ ~r.rerun /\ r.settings /\ r.before[2] = "failed")
                => r.verdict = "refused_order"
            /\ (r.step = 3 /\ ~r.rerun /\ r.settings /\ prior) =>
                /\ r.verdict = "accepted"
                /\ automation_steps[3] = "running"

\* Stage 3 was refused while stage 2 was failed, stage 2 was then re-run to
\* completion, and the request for stage 3 has just been accepted.
C4_Witness ==
    /\ scenario = 4
    /\ lastAction = "execute_step"
    /\ lastReq.step = 3
    /\ lastReq.verdict = "accepted"
    /\ automation_steps[3] = "running"

\* A status assignment that changes the status, by kind.
Forward(w) ==
    \/ w.from = "pending" /\ w.to = "running"
    \/ w.from = "running" /\ w.to \in {"completed", "failed"}

RerunReset(w) ==
    /\ w.from \in {"completed", "failed"}
    /\ w.to = "pending"
    /\ lastAction = "execute_step"
    /\ lastReq.rerun
    /\ lastReq.step = w.step

Changes == {k \in 1..Len(writes) : writes[k].from # writes[k].to}

\* C5 as stated: the only status changes are PENDING->RUNNING,
\* RUNNING->COMPLETED, RUNNING->FAILED and, on an operator's re-run request
\* for that stage, COMPLETED/FAILED->PENDING(->RUNNING); in particular no
\* RUNNING stage returns to PENDING.
C5_OnlyStateMachineTransitions ==
    \A k \in Changes : Forward(writes[k]) \/ RerunReset(writes[k])

\* The assignments of the OCR stage that do not look at the current status:
\* Cancel in the capture dialog (line 590), the failure paths of the dialog
\* and of execute_capture (595, 612), and the handlers of the worker's
\* signals (851, 873).
OcrUnconditionalWrite(w) ==
    /\ w.step = 1
    /\ \/ lastAction = "ocr_dialog_cancel" /\ w.to = "pending"
       \/ lastAction = "ocr_dialog_ok" /\ w.to = "failed"
       \/ lastAction = "on_patient_info_extracted" /\ w.to = "completed"
       \/ lastAction = "on_automation_error" /\ w.to = "failed"

\* C5 (amended): every status change is PENDING->RUNNING, RUNNING->COMPLETED,
\* RUNNING->FAILED, a COMPLETED/FAILED->PENDING reset made by a re-run
\* request for that very stage, or - for the OCR stage only - an assignment
\* made by the capture dialog (Cancel: back to PENDING, from RUNNING in
\* particular) or by a worker-signal handler, which are applied whatever the
\* stage's current status.  The WebCeph and PDF stages never leave RUNNING
\* for PENDING and never leave COMPLETED or FAILED without a re-run request.
C5_TransitionsWithOcrCancel ==
    /\ \A k \in Changes :
        \/ Forward(writes[k])
        \/ RerunReset(writes[k])
        \/ OcrUnconditionalWrite(writes[k])
    /\ \A k \in Changes :
        writes[k].step # 1 => Forward(writes[k]) \/ RerunReset(writes[k])

\* The operator cancelled the capture dialog and the running OCR stage went
\* back to pending.
C5_Witness ==
    /\ lastAction = "ocr_dialog_cancel"
    /\ writes = <<[step |-> 1, from |-> "running", to |-> "pending"]>>
    /\ automation_steps[1] = "pending"

\* The stage a handler belongs to.
HandlerStage ==
    CASE lastAction = "execute_step" -> lastReq.step
      [] lastAction \in {"ocr_dialog_ok", "ocr_dialog_cancel", "ocr_worker_run",
                         "on_patient_info_extracted", "on_automation_error"} -> 1
      [] lastAction \in {"run_webceph_process", "complete_webceph_analysis"} -> 2
      [] lastAction \in {"simulate_pdf_download", "complete_pdf_download"} -> 3
      [] OTHER -> 0

\* C6: a re-run request for a completed or failed stage assigns only that
\* stage's status, first 'pending' and then (when the request is accepted)
\* 'running'; every other stage has after the request the status it had
\* before it, and while the re-run is under way and when it ends every
\* handler changes the status of its own stage only.
C6_RerunTouchesOnlyItsStage ==
    [][ /\ (lastAction' = "execute_step" /\ lastReq'.rerun) =>
            /\ lastReq'.before = automation_steps
            /\ lastReq'.before[lastReq'.step] \in {"completed", "failed"}
            /\ \A t \in Steps \ {lastReq'.step} :
                  automation_steps'[t] = automation_steps[t]
            /\ \A k \in 1..Len(writes') : writes'[k].step = lastReq'.step
            /\ Len(writes') >= 1
            /\ writes'[1].to = "pending"
            /\ lastReq'.verdict = "accepted" =>
                  /\ Len(writes') >= 2
                  /\ writes'[2] = [step |-> lastReq'.step, from |-> "pending",
                                   to |-> "running"]
            /\ lastReq'.verdict # "accepted" =>
                  /\ Len(writes') = 1
                  /\ automation_steps'[lastReq'.step] = "pending"
        /\ \A t \in Steps :
              automation_steps'[t] # automation_steps[t] => t = HandlerStage'
      ]_vars

\* Stage 1 has just been re-run (reset to pending, then running) while
\* stage 2 is completed and stage 3 is running.
C6_Witness ==
    /\ lastAction = "execute_step"
    /\ lastReq.rerun
    /\ lastReq.step = 1
    /\ lastReq.verdict = "accepted"
    /\ lastReq.before = <<"completed", "completed", "running">>
    /\ Len(writes) >= 2
    /\ automation_steps[2] = "completed"
    /\ automation_steps[3] = "running"

(***************************************************************************)
(* Locator loop claims                                                     *)
(***************************************************************************)
\* The strategies of the list that match: their attempt yields a target
\* (a find loop: the lookup yields an element; a clicking loop: the element
\* is enabled, displayed and takes the click).
Matching(outs) ==
    {i \in 1..Len(outs) : BodyReturns(outs[i], loc_result.loop.clicks)}

FirstMatching(outs) ==
    CHOOSE i \in Matching(outs) : \A j \in Matching(outs) : i <= j

UpTo(n) == [k \in 1..n |-> k]

ClickingLoops ==
    {"_click_login_button", "_click_create_button", "click_new_patient_button"}

\* C7: when at least one strategy of the list matches, the loop hands back
\* (find loops) or clicks (clicking loops) the target of the first matching
\* strategy in list order, after evaluating the strategies before it in
\* order and none after it, whatever later strategies would also match;
\* for [no-match, match, match] the result is the second strategy's target.
C7_FirstMatchWins ==
    (loc_call # "none" /\ Matching(loc_outs) # {}) =>
        LET first == FirstMatching(loc_outs)
            r == loc_result
        IN  /\ r.loop.index = first
            /\ r.loop.evaluated = UpTo(first)
            /\ IF r.fn \in ClickingLoops
               THEN /\ r.value = "True"
                    /\ r.raised = NoException
                    /\ r.loop.clicked # <<>>
                    /\ r.loop.clicked[Len(r.loop.clicked)] = first
               ELSE IF loc_call = "_input_credentials"
               THEN \* the element found is the one typed into
                    /\ r.raised \in {NoException, MsgNotInteractable}
                    /\ r.raised = NoException <=> loc_outs[first] = "ok"
               ELSE /\ r.value = "element"
                    /\ r.raised = NoException
            /\ (Len(loc_outs) = 3 /\ loc_outs[1] = "absent"
                    /\ loc_outs[2] = "ok" /\ loc_outs[3] = "ok")
                  => r.loop.index = 2

\* click_new_patient_button on [no-match, match, match] clicked the second
\* strategy's element and never evaluated the third.
C7_Witness ==
    /\ loc_call = "click_new_patient_button"
    /\ loc_outs = <<"absent", "ok", "ok">>
    /\ loc_result.loop.index = 2
    /\ loc_result.loop.evaluated = <<1, 2>>
    /\ loc_result.loop.clicked = <<2>>
    /\ loc_result.value = "True"

\* The error text names the strategy.
Mentions(message, strategy) ==
    \E k \in 1..Len(message.selectors) : message.selectors[k] = strategy

RaisingLocators == {"_input_credentials", "click_new_patient_button"}

NotFoundMessage(fn) ==
    CASE fn = "_find_email_field" -> MsgNoEmailField
      [] fn = "_find_password_field" -> MsgNoPasswordField
      [] OTHER -> MsgNoNewPatientButton

SuperStrongCandidates ==
    {i \in DOMAIN dentweb_windows : dentweb_windows[i].is_super_strong}

StrongCandidates ==
    {i \in DOMAIN dentweb_windows :
        /\ dentweb_windows[i].is_strong_match
        /\ ~dentweb_windows[i].is_super_strong}

GeneralCandidates ==
    DOMAIN dentweb_windows \ (SuperStrongCandidates \cup StrongCandidates)

\* C9: the selection is tier-dominant.  When find_dentweb_window has
\* returned and some candidate is SUPER_STRONG, the returned candidate is
\* SUPER_STRONG; otherwise, when some candidate is STRONG, the returned
\* candidate is STRONG - whatever the area and the foreground state of the
\* candidates of lower tiers.
C9_TierDominantSelection ==
    win_pc = "done" =>
        /\ SuperStrongCandidates # {} =>
              selected_window \in SuperStrongCandidates
        /\ (SuperStrongCandidates = {} /\ StrongCandidates # {}) =>
              selected_window \in StrongCandidates
        /\ dentweb_windows # <<>> => selected_window \in DOMAIN dentweb_windows

\* A GENERAL candidate of area 900000 in the foreground came first, a
\* SUPER_STRONG candidate of area 10000 second, and the second was returned.
C9_Witness ==
    /\ win_pc = "done"
    /\ Len(dentweb_windows) = 2
    /\ 1 \in GeneralCandidates
    /\ dentweb_windows[1].area = 900000
    /\ dentweb_windows[1].is_foreground
    /\ dentweb_windows[1].is_visible_area
    /\ 2 \in SuperStrongCandidates
    /\ dentweb_windows[2].area = 10000
    /\ ~dentweb_windows[2].is_foreground
    /\ selected_window = 2

(***************************************************************************)
(* AutomationWorker claims                                                 *)
(***************************************************************************)
\* A stage call that was in flight when the flag was set has run to its
\* end (step_completed was emitted for it) once run() has returned, and
\* run() never returns with a started stage left without step_completed.
InFlightCallCompletes ==
    w_pc = "done" =>
        /\ w_started = w_completed
        /\ (stop_at.set /\ stop_at.pc \in {"L74", "W140", "W143", "W146"})
              => stop_at.step \in w_completed

\* The wait loop is left within one tick: after the flag is set at most
\* one msleep(1000) of the loop is made and no msleep(100) of a pause loop.
WaitLoopLeftWithinOneTick ==
    /\ ticks_after_stop <= 1
    /\ spins_after_stop = 0

\* C10 as stated: after stop() has set the flag no stage is started, a
\* worker inside the wait loop leaves it within one tick, and the stage
\* call in flight is not interrupted.
C10_NoStageStartedAfterStop ==
    /\ started_after_stop = {}
    /\ WaitLoopLeftWithinOneTick
    /\ InFlightCallCompletes

\* C10 (amended): after stop() has set the flag, the worker starts no stage
\* whose boundary check (line 66) it makes after the flag was set; the one
\* stage whose check it had already passed when the flag was set (the
\* thread was between line 66 and line 70) is still started and runs to its
\* end.  A worker inside the wait loop makes at most one more msleep(1000)
\* - only when the iteration's check at line 140 had already passed - and
\* returns at the next check; the stage call in flight is not interrupted.
C10_StopObservedAtNextCheck ==
    /\ \A s \in started_after_stop :
          /\ stop_at.pc = "L70"
          /\ stop_at.step = s
    /\ Cardinality(started_after_stop) <= 1
    /\ WaitLoopLeftWithinOneTick
    /\ ticks_after_stop = 1 => stop_at.pc \in {"W143", "W146"}
    /\ InFlightCallCompletes
    /\ (should_stop /\ w_pc = "done") =>
          \A s \in w_started : s <= stop_at.step

\* stop() was called while login_webceph (stage 2) was in flight: the call
\* ran to its end, no further stage was started and run() has returned
\* without automation_finished.
C10_Witness ==
    /\ should_stop
    /\ stop_at.pc = "L74"
    /\ stop_at.step = 2
    /\ w_pc = "done"
    /\ w_started = {1, 2}
    /\ w_completed = {1, 2}
    /\ started_after_stop = {}
    /\ w_finished = "none"

(***************************************************************************)
(* C11  pause is cooperative                                               *)
(***************************************************************************)
Paused == is_paused /\ ~should_stop

\* The stage the thread starts although the flag is set: the one whose
\* pause loop (line 63) it had already left when pause() was called.
StageAlreadyAdmitted ==
    IF pause_at.pc \in {"L66", "L70"} THEN {pause_at.step} ELSE {}

\* The msleep(1000) the thread makes although the flag is set: the one whose
\* pause loop (line 143) it had already left when pause() was called.
TickAlreadyAdmitted ==
    IF pause_at.pc = "W146" THEN 1 ELSE 0

\* C11 as stated: while the pause flag is set and no stop is requested, no
\* step of the worker starts a stage and none advances the analysis-wait
\* loop.
C11_PausedWorkerStartsNothing ==
    [][Paused => /\ w_started' = w_started
                 /\ w_pc = "W146" => w_iter' = w_iter]_vars

\* C11 amended: while the pause flag is set and no stop is requested, the
\* worker starts no stage and begins no msleep(1000) of the analysis-wait
\* loop whose pause check (line 63, line 143) it makes with the flag set: at
\* the check it spins.  The one stage, or the one msleep(1000), whose check it
\* had passed before pause() was called is still started; a stage call in
\* flight is not suspended and runs to its end.
C11_PauseObservedAtNextCheck ==
    Paused =>
        /\ pause_at.set
        /\ w_started \ pause_at.started \subseteq StageAlreadyAdmitted
        /\ w_step = pause_at.step /\ pause_at.pc \in {"W140", "W143", "W146"}
               => w_iter <= pause_at.iter + TickAlreadyAdmitted
        /\ w_step \in {pause_at.step, pause_at.step + 1}
        /\ w_step = pause_at.step + 1
               => /\ pause_at.step \in w_completed
                  /\ w_pc \in {"L59", "L63"}
        /\ w_pc \notin {"L66", "W146"} \/ pause_at.pc = w_pc
        /\ w_pc = "L70" => pause_at.pc \in {"L66", "L70"}

\* The pause flag was set while a stage call was in flight; the call has
\* returned, its step_completed is emitted, and the thread has slept in the
\* pause loop of the next stage without starting it.
C11_Witness ==
    /\ Paused
    /\ pause_at.pc = "L74"
    /\ pause_at.step \in w_completed
    /\ w_step = pause_at.step + 1
    /\ w_pc = "L63"
    /\ "L63" \in pause_spins
    /\ w_step \notin w_started

(***************************************************************************)
(* C12  enqueue and replay on the whole-file store, not serialized         *)
(***************************************************************************)
\* Items that were written to the store, are not in it any more, and were
\* neither counted 'processed' nor counted 'failed' by a replay.
Lost == {u \in Uids : fate[u] = "queued" /\ ~InStore(u)}

\* C12: an enqueued item can be absent from the store although it was never
\* processed nor counted as failed only when an enqueue's read-append-write
\* has overlapped a replay's read ... write or another enqueue's; as long as
\* no two calls have overlapped, no item is lost.
C12_LossOnlyWhenCallsOverlap ==
    Lost # {} => overlapped

\* Every call has returned, a replay has counted one item 'processed', and
\* the item enqueued between the replay's read and its write is lost.
C12_Witness ==
    /\ Lost # {}
    /\ overlapped
    /\ \E u \in Uids : fate[u] = "processed"
    /\ rep_local.pc = "idle"
    /\ \A t \in EnqThreads : enq_local[t].pc = "idle"

(***************************************************************************)
(* C13  a locator failure inside the WebCeph stage                         *)
(***************************************************************************)
\* The outcomes in which a locator of the session did not find its target.
LocatorFailures ==
    {"new_patient_button_not_found"} \cup ReturningFalseOutcomes

AfterSession == lastAction = "run_webceph_process"

EntersRunning(st) ==
    automation_steps[st] # "running" /\ automation_steps'[st] = "running"

Called(name) ==
    \E k \in 1..Len(pp_result.calls) : pp_result.calls[k] = name

\* C14: while the WebCeph ID, the WebCeph password or the Upstage API key
\* is missing, no step of the widget takes a stage to 'running': an
\* execute_step request, first run or re-run, returns at check_settings;
\* and a process_patient / process_new_patient call made without the
\* credentials returns success False without having called login.
C14_MissingSettingsBlockStages ==
    /\ [][~settings_ok => \A st \in Steps : ~EntersRunning(st)]_vars
    /\ [](lastAction = "execute_step" /\ ~lastReq.settings
              => lastReq.verdict = "refused_settings")
    /\ [](pp_result.fn # "none" /\ ~pp_result.credentials
              => ~pp_result.success /\ ~Called("login"))

\* A re-run request was refused for the settings, and the stage it asked
\* for is not 'running'.
C14_Witness ==
    /\ lastAction = "execute_step"
    /\ lastReq.verdict = "refused_settings"
    /\ lastReq.rerun
    /\ automation_steps[lastReq.step] # "running"

(***************************************************************************)
(* C15  the stages of a worker run, in list order                          *)
(***************************************************************************)
LogPositions == 1..Len(w_log)

Emitted(k, sig, step, ok) == w_log[k] = Signal(sig, step, ok)

StartedAt(k) == w_log[k].sig = "step_started"

\* C15: step_started is emitted for the entries of steps in list order,
\* each once, and for stage i+1 only after step_completed(True) for stage
\* i; after a stage returned failure or raised, step_completed(False) is
\* followed by automation_finished(False) and by nothing else: no progress
\* update for that stage, no later stage started.
C15_StagesInListOrder ==
    /\ \A k \in LogPositions :
         StartedAt(k) =>
            /\ w_log[k].step = Cardinality({j \in 1..k : StartedAt(j)})
            /\ w_log[k].step > 1 =>
                  \E j \in 1..(k - 1) :
                      Emitted(j, "step_completed", w_log[k].step - 1, "True")
    /\ \A k \in LogPositions :
         w_log[k].sig = "step_completed" /\ w_log[k].ok = "False"
            => /\ Len(w_log) = k + 1
               /\ Emitted(k + 1, "automation_finished", 0, "False")
               /\ w_pc = "done"

\* The third stage raised after two stages had succeeded.
C15_Witness ==
    /\ Len(w_log) = 9
    /\ Emitted(7, "step_started", 3, "-")
    /\ Emitted(8, "step_completed", 3, "False")
    /\ Emitted(9, "automation_finished", 0, "False")
    /\ Emitted(5, "step_completed", 2, "True")

(***************************************************************************)
(* C16  one replay gives every item of the snapshot exactly one outcome    *)
(***************************************************************************)
\* The step is a call of process_offline_queue.
ReplayStep == lastCall' = "process_offline_queue"

Snapshot == IF file_exists THEN queue_file ELSE <<>>

SnapshotUids == {Snapshot[i].uid : i \in 1..Len(Snapshot)}

PositionIn(q, u) == CHOOSE i \in 1..Len(q) : q[i].uid = u

KeptBy(q, u) == \E i \in 1..Len(q) : q[i].uid = u

\* C16: with the calls serialized, a process_offline_queue call attempts
\* every item of the list it loaded exactly once, and the item is either
\* dropped and counted 'processed', or dropped and counted 'failed', or
\* written back with retry_count one higher; the three counts add up to the
\* size of the loaded list, and the items written back keep their order.
C16_EveryItemExactlyOneOutcome ==
    [][ReplayStep =>
        LET kept == {u \in SnapshotUids : KeptBy(queue_file', u)}
            processed == {u \in SnapshotUids \ kept : fate'[u] = "processed"}
            failed == {u \in SnapshotUids \ kept : fate'[u] = "failed"}
        IN  /\ SnapshotUids = kept \cup processed \cup failed
            /\ \A u \in SnapshotUids : Len(hist'[u]) = Len(hist[u]) + 1
            /\ \A u \in kept :
                  queue_file'[PositionIn(queue_file', u)].retry_count
                     = Snapshot[PositionIn(Snapshot, u)].retry_count + 1
            /\ lastResult'.processed = Cardinality(processed)
            /\ lastResult'.failed = Cardinality(failed)
            /\ lastResult'.remaining = Cardinality(kept)
            /\ Len(queue_file') = Cardinality(kept)
            /\ lastResult'.processed + lastResult'.failed
                  + lastResult'.remaining = Len(Snapshot)
            /\ \A a, b \in 1..Len(queue_file') :
                  a < b => PositionIn(Snapshot, queue_file'[a].uid)
                             < PositionIn(Snapshot, queue_file'[b].uid)
       ]_vars

\* One replay of three items has processed one, dropped one as failed and
\* kept one.
C16_Witness ==
    /\ lastCall = "process_offline_queue"
    /\ lastResult.snapshot = 3
    /\ lastResult.processed = 1
    /\ lastResult.failed = 1
    /\ lastResult.remaining = 1
    /\ Len(queue_file) = 1

(***************************************************************************)
(* C17  retry_count of the stored items                                    *)
(***************************************************************************)
RetryCount(q, u) == q[PositionIn(q, u)].retry_count

\* C17: every item in the store has 0 <= retry_count < 3; an item enters
\* the store with retry_count 0, only a failed replay of the item changes
\* its retry_count, by exactly +1, and an item that reaches 3 is not written
\* back.
C17_RetryCountBelowMax ==
    /\ [](\A i \in 1..Len(queue_file) :
             queue_file[i].retry_count \in 0..(MaxRetries - 1))
    /\ [][\A u \in Uids :
            KeptBy(queue_file', u) =>
               IF KeptBy(queue_file, u)
               THEN \/ RetryCount(queue_file', u) = RetryCount(queue_file, u)
                       /\ hist'[u] = hist[u]
                    \/ /\ RetryCount(queue_file', u)
                             = RetryCount(queue_file, u) + 1
                       /\ ReplayStep
                       /\ hist'[u] = Append(hist[u], "fail")
               ELSE RetryCount(queue_file', u) = 0]_vars
    /\ [][\A u \in Uids :
            /\ KeptBy(queue_file, u)
            /\ RetryCount(queue_file, u) = MaxRetries - 1
            /\ hist'[u] = Append(hist[u], "fail")
            => ~KeptBy(queue_file', u) /\ fate'[u] = "failed"]_vars

\* The store holds an item that failed two replays and an item that was
\* never replayed.
C17_Witness ==
    /\ \E i \in 1..Len(queue_file) : queue_file[i].retry_count = MaxRetries - 1
    /\ \E i \in 1..Len(queue_file) : queue_file[i].retry_count = 0

(***************************************************************************)
(* C18  stages 'running' at the same time                                  *)
(***************************************************************************)
RunningStages == {st \in Steps : automation_steps[st] = "running"}

\* C18 as stated: at most one stage of AutomationFlowWidget is 'running' at
\* any time.
C18_AtMostOneStageRunning ==
    Cardinality(RunningStages) <= 1

(***************************************************************************)
(* C19  one worker at a time                                               *)
(***************************************************************************)
\* C19 as stated: at most one AutomationWorker is inside run() at any time,
\* also after stop_automation, and no signal of an earlier worker reaches
\* its slot while a later worker is the widget's running worker.
C19_OneWorkerAtATime ==
    /\ Cardinality({w \in Workers : Executing(w)}) <= 1
    /\ ~(m_last.worker # 0 /\ m_last.worker < m_last.current
            /\ m_last.running)

(***************************************************************************)
(* C20  automation_finished of a run that has ended                        *)
(***************************************************************************)
\* run() has returned.
RunEnded == w_pc = "done"

FinishedAt == {k \in LogPositions : w_log[k].sig = "automation_finished"}

\* stop() was called before run() returned.
StopRequestedInRun == stop_at.set /\ stop_at.pc # "done"

AllStagesSucceeded ==
    \A st \in 1..NumSteps :
        \E k \in LogPositions : Emitted(k, "step_completed", st, "True")

SuccessOnlyAfterAllStages ==
    \A k \in FinishedAt :
        w_log[k].ok = "True" => AllStagesSucceeded /\ ~StopRequestedInRun

\* C20 as stated: every run that has ended, stopped at a stage boundary
\* included, has emitted automation_finished exactly once, as its last
\* notification, and with True only after 8 successes and no stop.
C20_FinishedExactlyOnce ==
    RunEnded =>
        /\ FinishedAt = {Len(w_log)}
        /\ Len(w_log) > 0
        /\ SuccessOnlyAfterAllStages

\* C20: a run that has ended has emitted automation_finished at most once
\* and then as its last notification; it has emitted it when no stop was
\* requested during the run and when a stage reported failure (a stop seen
\* inside the analysis wait is such a failure); a run that emitted none was
\* stopped and left the loop at a stage boundary, with no failed stage; True
\* is emitted only after 8 successes and no stop.
C20_FinishedAtMostOnceAndLast ==
    RunEnded =>
        /\ Cardinality(FinishedAt) <= 1
        /\ FinishedAt \subseteq {Len(w_log)}
        /\ ~StopRequestedInRun => FinishedAt # {}
        /\ (\E k \in LogPositions :
               w_log[k].sig = "step_completed" /\ w_log[k].ok = "False")
              => FinishedAt # {}
        /\ FinishedAt = {} =>
              /\ StopRequestedInRun
              /\ \A k \in LogPositions : w_log[k].ok # "False"
        /\ SuccessOnlyAfterAllStages

\* A run stopped at the boundary after its second stage: it has ended and
\* has emitted no automation_finished.
C20_Witness ==
    /\ RunEnded
    /\ FinishedAt = {}
    /\ Len(w_log) = 6
    /\ Emitted(5, "step_completed", 2, "True")

(***************************************************************************)
(* C21  stop() while the worker is paused                                  *)
(***************************************************************************)
PauseLoops == {"L63", "W143"}

\* stop() was called while the pause flag was set and the thread was at
\* one of its two pause loops.
StoppedWhileSpinning ==
    stop_at.set /\ stop_at.paused /\ stop_at.pc \in PauseLoops

\* C21: when stop() is called while the worker spins in a pause loop, the
\* thread leaves the loop and run() returns (the thread being scheduled),
\* no stage is started after the stop and the loop is not entered again;
\* stop() itself clears the pause flag.
C21_StopEndsPausedWorker ==
    /\ StoppedWhileSpinning ~> RunEnded
    /\ [](StoppedWhileSpinning
            => started_after_stop = {} /\ spins_after_stop = 0)
    /\ [][(~should_stop /\ should_stop') => ~is_paused']_vars

\* The worker was stopped while it was spinning inside the analysis wait,
\* and run() has returned.
C21_Witness ==
    /\ StoppedWhileSpinning
    /\ stop_at.pc = "W143"
    /\ "W143" \in pause_spins
    /\ RunEnded

(***************************************************************************)
(* C22  a refused execute_step request                                     *)
(***************************************************************************)
\* The step is an execute_step call that returned without running a stage.
RefusedRequest ==
    lastAction' = "execute_step" /\ lastReq'.verdict # "accepted"

\* C22 as stated: a refused execute_step request, first run or re-run,
\* leaves the status of every stage and the progress value as they were.
C22_RefusedRequestChangesNothing ==
    [][RefusedRequest =>
          /\ automation_steps' = automation_steps
          /\ progress_bar' = progress_bar]_vars

(***************************************************************************)
(* C23  the selection inside the highest tier                              *)
(***************************************************************************)
\* The candidates of the highest tier present.
HighestTier ==
    IF SuperStrongCandidates # {} THEN SuperStrongCandidates
    ELSE IF StrongCandidates # {} THEN StrongCandidates
    ELSE GeneralCandidates

InForeground(tier) == {i \in tier : dentweb_windows[i].is_foreground}

Largest(tier) ==
    {i \in tier :
        \A j \in tier : dentweb_windows[j].area <= dentweb_windows[i].area}

\* The candidates whose rectangle, as first read, was larger than 100x100.
VisibleArea(tier) == {i \in tier : dentweb_windows[i].is_visible_area}

\* C23 as stated: in the highest tier present, whichever it is, a
\* foreground candidate is selected if there is one, and otherwise the
\* candidate with the largest area.
C23_ForegroundThenLargestInEveryTier ==
    (win_pc = "done" /\ selected_window # 0) =>
        IF InForeground(HighestTier) # {}
        THEN selected_window \in InForeground(HighestTier)
        ELSE selected_window \in Largest(HighestTier)

\* C23: in the SUPER_STRONG and the STRONG tier a foreground candidate is
\* selected if there is one (the largest of them), and otherwise the
\* largest of the tier.  In the GENERAL tier the foreground state is not
\* looked at: the largest of the candidates whose first rectangle exceeded
\* 100x100 is selected, and the first enumerated candidate when there is
\* none.
C23_ForegroundThenLargestInStrongTiers ==
    (win_pc = "done" /\ selected_window # 0) =>
        IF HighestTier # GeneralCandidates
        THEN IF InForeground(HighestTier) # {}
             THEN selected_window \in Largest(InForeground(HighestTier))
             ELSE selected_window \in Largest(HighestTier)
        ELSE IF VisibleArea(HighestTier) # {}
             THEN selected_window \in Largest(VisibleArea(HighestTier))
             ELSE selected_window = 1

\* Two STRONG candidates: the larger one in the background, the smaller
\* one in the foreground and selected.
C23_Witness ==
    /\ win_pc = "done"
    /\ StrongCandidates = {1, 2}
    /\ SuperStrongCandidates = {}
    /\ ~dentweb_windows[1].is_foreground
    /\ dentweb_windows[1].area = 900000
    /\ dentweb_windows[2].is_foreground
    /\ dentweb_windows[2].area = 10000
    /\ selected_window = 2

(***************************************************************************)
(* C24  the windows the restore operations are issued on                   *)
(***************************************************************************)
\* C24 as stated: when find_dentweb_window has returned, no window other
\* than the selected one has had ShowWindow / SetForegroundWindow /
\* BringWindowToTop called on it.
C24_OperationsOnlyOnSelected ==
    win_pc = "done" =>
        \A i \in DOMAIN dentweb_windows :
            dentweb_windows[i].restore_issued => i = selected_window

(***************************************************************************)
(* C25  the order of the activation calls and the re-reads between them    *)
(***************************************************************************)
ActPositions == 1..Len(act_log)

IsRead(k) == act_log[k].op = "GetWindowRect"

Issued(op) == {k \in ActPositions : act_log[k].op = op}

\* The place of a call in restore -> force-show -> show-normal ->
\* bring-to-front/set-foreground -> force-maximize -> reposition.
Rank(op) ==
    CASE op = "SW_RESTORE" -> 1
      [] op = "SW_SHOW" -> 2
      [] op = "SW_SHOWNORMAL" -> 3
      [] op \in {"SetForegroundWindow", "BringWindowToTop",
                 "SetActiveWindow"} -> 4
      [] op = "SW_SHOWMAXIMIZED" -> 5
      [] OTHER -> 6

\* The calls of the log without the reads.
CallsOnly == SelectSeq(act_log, LAMBDA e : e.op # "GetWindowRect")

CallNames == [k \in 1..Len(CallsOnly) |-> CallsOnly[k].op]

IsPrefixOf(a, b) == Len(a) <= Len(b) /\ a = SubSeq(b, 1, Len(a))

Degenerate(w) == w.off \/ w.width <= 0

\* C26 as stated: when a window matched, find_dentweb_window returns a
\* record, and a returned record whose geometry is still degenerate is not
\* reported as restored: its is_minimized is still True.
C26_DegenerateRecordStaysMinimized ==
    win_pc = "done" =>
        /\ dentweb_windows # <<>> => selected_window \in DOMAIN dentweb_windows
        /\ selected_window # 0 =>
              (Degenerate(dentweb_windows[selected_window])
                  => dentweb_windows[selected_window].is_minimized)

(***************************************************************************)
(* C27  the order of the detection methods                                 *)
(***************************************************************************)
DetectCalled == det_fn = "detect_and_select_new_patient"

CallPositions == 1..Len(det_calls)

\* The place of a method in: chart number search, free-text search,
\* first item of the list, row matching.
ClaimedRank(method) ==
    CASE method = "_search_and_select_patient:chart_no" -> 1
      [] method = "_select_first_patient_in_list" -> 3
      [] method = "_select_patient_by_matching" -> 4
      [] OTHER -> 2

\* The place of a method in the code's order: first item of the list, the
\* searches in the order of the keys, row matching.
CodeRank(method) ==
    CASE method = "_select_first_patient_in_list" -> 1
      [] method = "_search_and_select_patient:chart_no" -> 2
      [] method = "_search_and_select_patient:name" -> 3
      [] method = "_search_and_select_patient:first_name" -> 4
      [] method = "_search_and_select_patient:last_name" -> 5
      [] OTHER -> 6

\* C27 as stated: the methods are tried in the order chart number search,
\* free-text search, first item of the list, row matching.
C27_SearchBeforeFirstItem ==
    DetectCalled =>
        \A j, k \in CallPositions :
            j < k => ClaimedRank(det_calls[j]) <= ClaimedRank(det_calls[k])

\* C27: the methods are tried in this order: the first item of the
\* refreshed list, then a search for each present key in the order
\* chart_no, name, first_name, last_name, then the row matching.  No method
\* is skipped or repeated, the call stops at the first method that
\* succeeds, and it returns False only after the matching was tried (or
\* when loading the page raised, before any method).
C27_FirstItemThenSearchThenMatching ==
    DetectCalled =>
        /\ \A j, k \in CallPositions :
              j < k => CodeRank(det_calls[j]) < CodeRank(det_calls[k])
        /\ \A k \in CallPositions :
              /\ CodeRank(det_calls[k]) \in 2..5 =>
                    PatientFields[CodeRank(det_calls[k]) - 1] \in det_in
              /\ \A r \in 1..(CodeRank(det_calls[k]) - 1) :
                    (r = 1 \/ PatientFields[r - 1] \in det_in)
                       => \E j \in 1..(k - 1) : CodeRank(det_calls[j]) = r
        /\ det_out.returned =>
              /\ det_calls # <<>>
              /\ CodeRank(det_calls[Len(det_calls)]) =
                    (IF det_out.by = "matching_fallback"
                        \/ det_out.by = "matching"
                     THEN 6 ELSE CodeRank(det_out.by))
        /\ (~det_out.returned /\ det_calls # <<>>) =>
              det_calls[Len(det_calls)] = "_select_patient_by_matching"

\* The first item could not be clicked, the search for the chart number
\* found nothing, the search for the name selected the patient.
C27_Witness ==
    /\ DetectCalled
    /\ det_calls = <<"_select_first_patient_in_list",
                     "_search_and_select_patient:chart_no",
                     "_search_and_select_patient:name">>
    /\ det_out.returned
    /\ det_out.by = "_search_and_select_patient:name"

(***************************************************************************)
(* C28  the row _select_patient_by_matching clicks                         *)
(***************************************************************************)
MatchingCalled == det_fn = "_select_patient_by_matching"

\* At least half of the fields that are present occur in the row's text.
HalfOfFieldsOccur(k) ==
    /\ det_in # {}
    /\ 2 * Cardinality(det_in \cap det_rows[k]) >= Cardinality(det_in)

Examined ==
    {k \in 1..Len(det_rows) : k <= ExaminedRows}

\* C28 as stated: a row is clicked only if at least half of the checked
\* fields occur in its text, and when no examined row reaches that
\* threshold nothing is clicked and the call returns False.
C28_ClicksOnlyMatchingRow ==
    MatchingCalled =>
        /\ det_out.selected # 0 => HalfOfFieldsOccur(det_out.selected)
        /\ (\A k \in Examined : ~HalfOfFieldsOccur(k)) =>
              (det_out.selected = 0 /\ ~det_out.returned)

\* C28: the first of the five first rows in which at least half of the
\* present fields occur is clicked; when none of them reaches the
\* threshold and the list has a row, the first row is clicked all the same
\* and the call returns True; it returns False, having clicked nothing,
\* only when no pattern gives a row or a call raised.
C28_MatchingRowElseFirstRow ==
    MatchingCalled =>
        /\ det_out.by = "matching" =>
              /\ det_out.selected \in Examined
              /\ HalfOfFieldsOccur(det_out.selected)
              /\ \A j \in 1..(det_out.selected - 1) : ~HalfOfFieldsOccur(j)
        /\ det_out.by = "matching_fallback" =>
              /\ det_out.selected = 1
              /\ \A k \in Examined : ~HalfOfFieldsOccur(k)
        /\ det_out.returned = (det_out.selected # 0)
        /\ det_out.returned = (det_out.by # "none")
        /\ ~det_out.returned =>
              \/ det_rows = <<>>
              \/ det_out = NoDetection

\* Six rows, the patient's name and chart number are known, only the sixth
\* row holds them: no examined row reaches the threshold and the first row
\* is clicked.
C28_Witness ==
    /\ MatchingCalled
    /\ det_in = {"chart_no", "name"}
    /\ Len(det_rows) = 6
    /\ \A k \in 1..5 : det_rows[k] = {}
    /\ det_rows[6] = FieldSet
    /\ det_out = [returned |-> TRUE, selected |-> 1,
                  by |-> "matching_fallback"]

(***************************************************************************)
(* C29  wait_for_analysis_completion terminates                            *)
(***************************************************************************)
WaitEnded == wa_pc \in {"returned", "raised"}

\* The passes the loop can make: max_wait_seconds / check_interval.
PollLimit == MaxWaitSeconds(wa_minutes) \div CheckInterval

\* C29: a call of wait_for_analysis_completion ends; the loop body is
\* entered at most max_wait_seconds / check_interval times, 40 times for the
\* default of 10 minutes; the call returns at the first pass that finds a
\* completion indicator; it raises the timeout error only after all the
\* passes were made without one; a pass that raised is counted like any
\* other and is followed by the sleep.
C29_WaitTerminates ==
    /\ (wa_pc = "poll") ~> WaitEnded
    /\ [](wa_polls <= PollLimit /\ (wa_minutes = 10 => wa_polls <= 40))
    /\ [](wa_pc = "returned" <=> wa_seen = 1)
    /\ [](wa_seen <= 1)
    /\ [](wa_pc = "raised" => wa_polls = PollLimit /\ wa_seen = 0)
    /\ [](wa_errors <= wa_polls)
    /\ [][wa_errors' > wa_errors => wa_pc' = "sleep"]_vars

\* Ten minutes asked for: 39 passes raised, the 40th found nothing, and
\* the timeout error was raised.
C29_Witness ==
    /\ wa_pc = "raised"
    /\ wa_minutes = 10
    /\ wa_polls = 40
    /\ wa_errors = 39

(***************************************************************************)
(* Elements that are found but cannot be used                              *)
(***************************************************************************)
\* The positions of the list at which the lookup yielded an element that is
\* disabled, not displayed or of no size, among those the loop attempted.
FoundNotInteractable ==
    {k \in 1..Len(loc_outs) :
        /\ loc_outs[k] = "unusable"
        /\ \E n \in 1..Len(loc_result.loop.evaluated) :
              loc_result.loop.evaluated[n] = k}

\* C30: when a strategy locates an element that is not interactable, the
\* locator neither returns that element nor acts on it nor fails at once:
\* the loop goes on with the next strategy of the list, and not-found is
\* reported only after every strategy of the list was attempted.
C30_NotInteractableElementIsSkipped ==
    loc_call # "none" =>
        LET r == loc_result
        IN  /\ \A k \in FoundNotInteractable :
                  /\ r.loop.index # k
                  /\ \A n \in 1..Len(r.loop.clicked) : r.loop.clicked[n] # k
                  /\ r.raised # MsgNotInteractable
                  /\ k < Len(loc_outs) =>
                        \E n \in 1..Len(r.loop.evaluated) :
                            r.loop.evaluated[n] = k + 1
            /\ r.loop.index = 0 => r.loop.evaluated = UpTo(Len(loc_outs))

====
